---- MODULE Spec2Model ----
(***************************************************************************)
(* Model of GitAnalyzer (src/analyzer/GitAnalyzer.ts): the git-log parser  *)
(* parseRawLog, the per-repository analysis analyze() and the              *)
(* multi-repository merge mergeAnalysisResults; and of the command-line     *)
(* driver generateReport (src/cli/index.ts) that runs them.                *)
(*                                                                         *)
(* Text is modelled character by character: a string is a sequence of      *)
(* one-character strings, a raw log is the sequence of its lines (what     *)
(* rawLog.split('\n') returns).                                            *)
(***************************************************************************)
EXTENDS Integers, Sequences, FiniteSets, TLC

VARIABLES
    pc,             \* position of the run
    lines,          \* parseRawLog: rawLog.split('\n')
    lineIdx,        \* parseRawLog: index of the next line (0-based)
    state,          \* parseRawLog: "meta" or "stats"
    currentCommit,  \* parseRawLog: the pending record, or NULL
    commits,        \* the commit sequence (parser output, analyze() input)
    groups,         \* history: the records the log-fetch collaborator wrote
    today,          \* the local calendar day on which analyze() runs
    result,         \* analyze(): the GitAnalysisResult under construction
    results,        \* multi-repository mode: the list handed to the merger
    merged,         \* mergeAnalysisResults: the value returned
    repos,          \* generateReport: repositoriesToAnalyze
    repoIdx,        \* generateReport: the loop index i
    report,         \* generateReport: the result handed to ReportGenerator
    heap,           \* the mutable objects of the collected results and of the
                    \* merged result, by reference
    parsedBefore    \* what an earlier parseRawLog call on the same text returned

cliVars == <<repos, repoIdx, report>>

vars == <<pc, lines, lineIdx, state, currentCommit, commits, groups, today,
          result, results, merged, repos, repoIdx, report, heap, parsedBefore>>

NULL == [null |-> TRUE]

(***************************************************************************)
(* Bounds of the model.                                                    *)
(***************************************************************************)
MaxRecords == 2   \* complete header groups in a raw log
MaxPad == 1       \* blank lines before the first header
MaxBody == 3      \* lines (blank, stat, malformed) after the headers
MaxCommits == 3   \* records in the log analyze() reads
MaxRepos == 3     \* repositories handed to the merger
MaxFiles == 4     \* changed files of the commit that is classified
MaxProjects == 51 \* repositories of a run over many small repositories
MaxLog == 31      \* records in a long log

(***************************************************************************)
(* Strings.                                                                *)
(***************************************************************************)
TAB == "\t"

WhiteSpace == {" ", TAB, "\r"}

DigitChars == <<"0", "1", "2", "3", "4", "5", "6", "7", "8", "9">>

IsDigit(c) == \E i \in 1..10 : DigitChars[i] = c

DigitVal(c) == (CHOOSE i \in 1..10 : DigitChars[i] = c) - 1

UpperChars == <<"A", "B", "C", "D", "E", "F", "G", "H", "I", "J", "K", "L", "M",
                "N", "O", "P", "Q", "R", "S", "T", "U", "V", "W", "X", "Y", "Z">>

LowerChars == <<"a", "b", "c", "d", "e", "f", "g", "h", "i", "j", "k", "l", "m",
                "n", "o", "p", "q", "r", "s", "t", "u", "v", "w", "x", "y", "z">>

\* String.prototype.toLowerCase
ToLowerCase(s) ==
    [i \in 1..Len(s) |->
        IF \E k \in 1..26 : UpperChars[k] = s[i]
        THEN LowerChars[CHOOSE k \in 1..26 : UpperChars[k] = s[i]]
        ELSE s[i]]

\* The characters of s as one string value (used as a map key).
RECURSIVE Str(_)
Str(s) == IF s = <<>> THEN "" ELSE Head(s) \o Str(Tail(s))

\* String.prototype.trim() === ''
TrimIsEmpty(s) == \A i \in 1..Len(s) : s[i] \in WhiteSpace

\* String.prototype.includes
Includes(s, pat) ==
    \E i \in 0..(Len(s) - Len(pat)) : \A j \in 1..Len(pat) : s[i + j] = pat[j]

\* String.prototype.endsWith
EndsWith(s, pat) ==
    /\ Len(s) >= Len(pat)
    /\ \A j \in 1..Len(pat) : s[Len(s) - Len(pat) + j] = pat[j]

\* String.prototype.split(sep) for a one-character separator.
RECURSIVE Split(_, _)
Split(s, sep) ==
    IF \A i \in 1..Len(s) : s[i] # sep
    THEN <<s>>
    ELSE LET k == CHOOSE i \in 1..Len(s) :
                      s[i] = sep /\ \A j \in 1..(i - 1) : s[j] # sep
         IN  <<SubSeq(s, 1, k - 1)>> \o Split(SubSeq(s, k + 1, Len(s)), sep)

\* parseInt(s, 10): leading white space, an optional sign, then the longest
\* run of decimal digits; NaN when there is no digit.
RECURSIVE DigitsValue(_, _)
DigitsValue(s, acc) ==
    IF s = <<>> \/ ~IsDigit(Head(s)) THEN acc
    ELSE DigitsValue(Tail(s), 10 * acc + DigitVal(Head(s)))

\* A number is [nan, val]; NaN is the one with nan = TRUE.
NaN == [nan |-> TRUE, val |-> 0]

RECURSIVE SkipWhiteSpace(_)
SkipWhiteSpace(s) ==
    IF s # <<>> /\ Head(s) \in WhiteSpace THEN SkipWhiteSpace(Tail(s)) ELSE s

ParseInt(s) ==
    LET t == SkipWhiteSpace(s)
        neg == t # <<>> /\ Head(t) = "-"
        u == IF t # <<>> /\ Head(t) \in {"-", "+"} THEN Tail(t) ELSE t
    IN  IF u = <<>> \/ ~IsDigit(Head(u)) THEN NaN
        ELSE [nan |-> FALSE,
              val |-> IF neg THEN 0 - DigitsValue(u, 0) ELSE DigitsValue(u, 0)]

IsNaN(v) == v.nan


(***************************************************************************)
(* Dates.  A Date is [valid, time]: time is getTime() in seconds, and an   *)
(* Invalid Date has valid = FALSE.  The header's second line is git's %aI  *)
(* (YYYY-MM-DDTHH:MM:SS+HH:MM); new Date() of any other text is taken to   *)
(* be an Invalid Date.  moment(date) reads the date in the local zone.     *)
(***************************************************************************)
InvalidDate == [valid |-> FALSE, time |-> 0]

\* The zone of the machine, in minutes east of UTC.
LocalOffsetMin == 8 * 60

\* Days since 1970-01-01 of the civil date y-m-d (proleptic Gregorian).
DaysFromCivil(y, m, d) ==
    LET yy == IF m <= 2 THEN y - 1 ELSE y
        era == yy \div 400
        yoe == yy - era * 400
        mp == IF m > 2 THEN m - 3 ELSE m + 9
        doy == (153 * mp + 2) \div 5 + d - 1
        doe == yoe * 365 + yoe \div 4 - yoe \div 100 + doy
    IN  era * 146097 + doe - 719468

\* The civil date <<y, m, d>> of day number z.
CivilFromDays(z) ==
    LET zz == z + 719468
        era == zz \div 146097
        doe == zz - era * 146097
        yoe == (doe - doe \div 1460 + doe \div 36524 - doe \div 146096) \div 365
        doy == doe - (365 * yoe + yoe \div 4 - yoe \div 100)
        mp == (5 * doy + 2) \div 153
        d == doy - (153 * mp + 2) \div 5 + 1
        m == IF mp < 10 THEN mp + 3 ELSE mp - 9
        y == yoe + era * 400 + (IF m <= 2 THEN 1 ELSE 0)
    IN  <<y, m, d>>

Num2(s, i) == 10 * DigitVal(s[i]) + DigitVal(s[i + 1])

\* new Date(text)
NewDate(s) ==
    IF /\ Len(s) = 25
       /\ \A i \in {1, 2, 3, 4, 6, 7, 9, 10, 12, 13, 15, 16, 18, 19, 21, 22, 24, 25} :
              IsDigit(s[i])
       /\ s[5] = "-" /\ s[8] = "-" /\ s[11] = "T" /\ s[14] = ":" /\ s[17] = ":"
       /\ s[20] \in {"+", "-"} /\ s[23] = ":"
       /\ Num2(s, 6) \in 1..12 /\ Num2(s, 9) \in 1..31
       /\ Num2(s, 12) \in 0..23 /\ Num2(s, 15) \in 0..59 /\ Num2(s, 18) \in 0..59
       /\ Num2(s, 21) \in 0..23 /\ Num2(s, 24) \in 0..59
    THEN LET y == 100 * Num2(s, 1) + Num2(s, 3)
             off == (IF s[20] = "-" THEN -1 ELSE 1) * (60 * Num2(s, 21) + Num2(s, 24))
         IN  [valid |-> TRUE,
              time |-> DaysFromCivil(y, Num2(s, 6), Num2(s, 9)) * 86400
                         + Num2(s, 12) * 3600 + Num2(s, 15) * 60 + Num2(s, 18)
                         - off * 60]
    ELSE InvalidDate

\* moment(date): the local calendar day number.
LocalSeconds(d) == d.time + LocalOffsetMin * 60

LocalDay(d) == LocalSeconds(d) \div 86400

\* moment(date).hour() of a valid date (NaN otherwise).
MomentHour(d) == (LocalSeconds(d) % 86400) \div 3600

\* moment(date).day() of a valid date (NaN otherwise): 0 is Sunday.
MomentDay(d) == (LocalDay(d) + 4) % 7

\* What format() returns for an invalid moment.
InvalidDateText == <<"I", "n", "v", "a", "l", "i", "d", " ", "d", "a", "t", "e">>

Two(n) == <<DigitChars[(n \div 10) + 1], DigitChars[(n % 10) + 1]>>

\* The text 'YYYY-MM' / 'YYYY-MM-DD' of local day number z.
MonthText(z) ==
    LET c == CivilFromDays(z)
    IN  Two(c[1] \div 100) \o Two(c[1] % 100) \o <<"-">> \o Two(c[2])

DayText(z) == MonthText(z) \o <<"-">> \o Two(CivilFromDays(z)[3])

\* moment(date).format('YYYY-MM-DD')
FormatDay(d) == IF d.valid THEN DayText(LocalDay(d)) ELSE InvalidDateText

\* moment(date).format('YYYY-MM')
FormatMonth(d) == IF d.valid THEN MonthText(LocalDay(d)) ELSE InvalidDateText

\* moment(text) of a 'YYYY-MM-DD' text is valid.
IsDayText(s) ==
    /\ Len(s) = 10
    /\ \A i \in {1, 2, 3, 4, 6, 7, 9, 10} : IsDigit(s[i])
    /\ s[5] = "-" /\ s[8] = "-"

\* The local day number moment(text) denotes.
DayOfText(s) == DaysFromCivil(100 * Num2(s, 1) + Num2(s, 3), Num2(s, 6), Num2(s, 9))

\* Code-unit order of the characters date keys are made of.
CharOrder == <<" ", "-", "0", "1", "2", "3", "4", "5", "6", "7", "8", "9", "I",
               "a", "d", "e", "i", "l", "n", "t", "v">>

CharCode(c) == CHOOSE i \in 1..Len(CharOrder) : CharOrder[i] = c

\* a < b as strings (the order of Array.prototype.sort() and localeCompare
\* on date keys).
RECURSIVE TextLess(_, _)
TextLess(a, b) ==
    IF b = <<>> THEN FALSE
    ELSE IF a = <<>> THEN TRUE
    ELSE IF Head(a) # Head(b) THEN CharCode(Head(a)) < CharCode(Head(b))
    ELSE TextLess(Tail(a), Tail(b))

(***************************************************************************)
(* CommitClassifier: detectLanguage and getLanguageFromExtension.          *)
(***************************************************************************)
LanguageTable ==
    (".js" :> "JavaScript") @@ (".ts" :> "TypeScript") @@ (".jsx" :> "JavaScript")
    @@ (".tsx" :> "TypeScript") @@ (".py" :> "Python") @@ (".java" :> "Java")
    @@ (".go" :> "Go") @@ (".rs" :> "Rust") @@ (".cpp" :> "C++") @@ (".c" :> "C")
    @@ (".cs" :> "C#") @@ (".php" :> "PHP") @@ (".rb" :> "Ruby")
    @@ (".swift" :> "Swift") @@ (".kt" :> "Kotlin") @@ (".dart" :> "Dart")
    @@ (".html" :> "HTML") @@ (".css" :> "CSS") @@ (".scss" :> "SCSS")
    @@ (".sass" :> "Sass") @@ (".less" :> "Less") @@ (".vue" :> "Vue")
    @@ (".json" :> "JSON") @@ (".xml" :> "XML") @@ (".yaml" :> "YAML")
    @@ (".yml" :> "YAML") @@ (".md" :> "Markdown") @@ (".sql" :> "SQL")
    @@ (".sh" :> "Shell") @@ (".bat" :> "Batch")

\* getLanguageFromExtension(ext): ext is the extension as a string value.
GetLanguageFromExtension(ext) ==
    IF ext \in DOMAIN LanguageTable THEN LanguageTable[ext] ELSE "Other"

\* Index of the last occurrence of c in s, 0 when there is none.
LastIndexOf(s, c) ==
    IF \E i \in 1..Len(s) : s[i] = c
    THEN CHOOSE i \in 1..Len(s) : s[i] = c /\ \A j \in (i + 1)..Len(s) : s[j] # c
    ELSE 0

\* path.extname(file): from the last '.' of the last path segment to the end;
\* empty when that segment has no '.' or only a leading one.
ExtName(file) ==
    LET base == SubSeq(file, LastIndexOf(file, "/") + 1, Len(file))
        dot == LastIndexOf(base, ".")
    IN  IF dot <= 1 THEN <<>> ELSE SubSeq(base, dot, Len(base))

\* path.extname(file).toLowerCase()
FileExt(file) == Str(ToLowerCase(ExtName(file)))

\* The distinct values of a sequence in order of first occurrence: the key
\* order of a Map filled by walking the sequence.
RECURSIVE FirstSeen(_)
FirstSeen(s) ==
    IF s = <<>> THEN <<>>
    ELSE LET r == FirstSeen(SubSeq(s, 1, Len(s) - 1))
             x == s[Len(s)]
         IN  IF \E i \in 1..Len(r) : r[i] = x THEN r ELSE Append(r, x)

\* Number of positions of s holding x.
CountOf(s, x) == Cardinality({i \in 1..Len(s) : s[i] = x})

\* The loop with `count >= maxCount`: among equal counts the last key wins.
RECURSIVE DominantExtLastWins(_, _, _, _)
DominantExtLastWins(keys, exts, maxCount, dominantExt) ==
    IF keys = <<>> THEN dominantExt
    ELSE IF CountOf(exts, Head(keys)) >= maxCount
         THEN DominantExtLastWins(Tail(keys), exts, CountOf(exts, Head(keys)), Head(keys))
         ELSE DominantExtLastWins(Tail(keys), exts, maxCount, dominantExt)

\* The loop of detectLanguage over extCount: the first key, in insertion
\* order, whose count is strictly greater than every count before it.
RECURSIVE DominantExt(_, _, _, _)
DominantExt(keys, exts, maxCount, dominantExt) ==
    IF keys = <<>> THEN dominantExt
    ELSE IF CountOf(exts, Head(keys)) > maxCount
         THEN DominantExt(Tail(keys), exts, CountOf(exts, Head(keys)), Head(keys))
         ELSE DominantExt(Tail(keys), exts, maxCount, dominantExt)

\* detectLanguage without its test for an empty file list.
detectLanguageOfAnyList(files) ==
    LET exts == [i \in 1..Len(files) |-> FileExt(files[i])]
    IN  GetLanguageFromExtension(DominantExt(FirstSeen(exts), exts, 0, ""))

detectLanguage(files) ==
    IF Len(files) = 0 THEN "Unknown"
    ELSE LET exts == [i \in 1..Len(files) |-> FileExt(files[i])]
         IN  GetLanguageFromExtension(DominantExt(FirstSeen(exts), exts, 0, ""))

(***************************************************************************)
(* LogTextParser: parseRawLog, one loop iteration per step.                *)
(***************************************************************************)
\* line.length === 40 && !line.includes('\t')
LooksLikeHash(line) == Len(line) = 40 /\ ~Includes(line, <<TAB>>)

\* Truthiness of a string: the empty string is falsy.
Truthy(s) == s # <<>>

\* finalizeCommit(): push the pending record, with its language, when it has
\* a non-empty hash.
finalizeCommit(cur, out) ==
    IF cur # NULL /\ Truthy(cur.hash)
    THEN Append(out, [hash |-> cur.hash, date |-> cur.date, message |-> cur.message,
                      author |-> cur.author, email |-> cur.email, files |-> cur.files,
                      insertions |-> cur.insertions, deletions |-> cur.deletions,
                      language |-> detectLanguage(cur.files)])
    ELSE out

\* The Meta branch leaving the line index where the header began.
SkipBlankStay(ls, i) == i - 5

\* Index after the blank lines starting at 0-based index i.
RECURSIVE SkipBlank(_, _)
SkipBlank(ls, i) ==
    IF i < Len(ls) /\ TrimIsEmpty(ls[i + 1]) THEN SkipBlank(ls, i + 1) ELSE i

\* The record read from the five lines at 0-based index i.
ReadMeta(ls, i) ==
    [hash |-> ls[i + 1], date |-> NewDate(ls[i + 2]), message |-> ls[i + 3],
     author |-> ls[i + 4], email |-> ls[i + 5], files |-> <<>>,
     insertions |-> 0, deletions |-> 0]

\* A numeric field of a stat line: '-' is 0, otherwise parseInt, NaN counted as 0.
StatValue(field) ==
    LET v == IF field = <<"-">> THEN [nan |-> FALSE, val |-> 0] ELSE ParseInt(field)
    IN  IF IsNaN(v) THEN 0 ELSE v.val

\* AccumulateStat with the field-count test loosened to "at least three".
AccumulateStatAtLeast3(cur, line) ==
    LET parts == Split(line, TAB)
    IN  IF Len(parts) >= 3 /\ cur # NULL
        THEN [cur EXCEPT !.insertions = @ + StatValue(parts[1]),
                         !.deletions = @ + StatValue(parts[2]),
                         !.files = Append(@, parts[3])]
        ELSE cur

\* The stats branch on a non-blank line: a three-field line is accumulated
\* into the pending record, any other line changes nothing.
AccumulateStat(cur, line) ==
    LET parts == Split(line, TAB)
    IN  IF Len(parts) = 3 /\ cur # NULL
        THEN [cur EXCEPT !.insertions = @ + StatValue(parts[1]),
                         !.deletions = @ + StatValue(parts[2]),
                         !.files = Append(@, parts[3])]
        ELSE cur

\* One iteration of the while loop from parser state p over the lines ls.
ParseIteration(ls, p) ==
    LET line == ls[p.lineIdx + 1]
        boundary == p.state = "stats" /\ LooksLikeHash(line)
        st == IF boundary THEN "meta" ELSE p.state
        cur == IF boundary THEN NULL ELSE p.currentCommit
        out == IF boundary THEN finalizeCommit(p.currentCommit, p.commits) ELSE p.commits
    IN  IF st = "meta"
        THEN IF p.lineIdx + 4 >= Len(ls)
             THEN [lineIdx |-> p.lineIdx, state |-> st, currentCommit |-> cur,
                   commits |-> out, broke |-> TRUE]
             ELSE [lineIdx |-> SkipBlank(ls, p.lineIdx + 5), state |-> "stats",
                   currentCommit |-> ReadMeta(ls, p.lineIdx), commits |-> out,
                   broke |-> FALSE]
        ELSE IF TrimIsEmpty(line)
             THEN [p EXCEPT !.lineIdx = @ + 1]
             ELSE [p EXCEPT !.lineIdx = @ + 1,
                            !.currentCommit = AccumulateStat(cur, line)]

\* Locals of which `commits` keeps what an earlier call left in it.
ParserStartStale ==
    [lineIdx |-> 0, state |-> "meta", currentCommit |-> NULL, commits |-> commits,
     broke |-> FALSE]

\* The locals of parseRawLog when it is entered.
ParserStart ==
    [lineIdx |-> 0, state |-> "meta", currentCommit |-> NULL, commits |-> <<>>,
     broke |-> FALSE]

\* The loop runs while lineIdx < lines.length and no break was taken.
LoopEnded(ls, p) == p.broke \/ p.lineIdx >= Len(ls)

RECURSIVE ParseLoop(_, _)
ParseLoop(ls, p) == IF LoopEnded(ls, p) THEN p ELSE ParseLoop(ls, ParseIteration(ls, p))

\* parseRawLog(rawLog), rawLog given as its lines.
parseRawLog(ls) ==
    LET p == ParseLoop(ls, ParserStart)
    IN  finalizeCommit(p.currentCommit, p.commits)


(***************************************************************************)
(* AnalyticsAggregator: the statistics analyze() derives from the commits. *)
(* A Map whose key order is never read is a function on its key set; a Map *)
(* or array whose order matters is a sequence in that order.               *)
(***************************************************************************)
Max(a, b) == IF a >= b THEN a ELSE b

\* Sum of f[1] .. f[n].
SumTo(f, n) ==
    LET sum[k \in 0..n] == IF k = 0 THEN 0 ELSE sum[k - 1] + f[k]
    IN  sum[n]

Min(a, b) == IF a <= b THEN a ELSE b

\* Array.prototype.sort(compare) is stable.  The indices 1..n of a sequence
\* in ascending order of key[i], equal keys keeping their order: index n is
\* inserted after every index whose key is not greater.
RECURSIVE InsertIndex(_, _, _)
InsertIndex(idx, n, key) ==
    IF idx = <<>> THEN <<n>>
    ELSE IF key[n] < key[Head(idx)] THEN <<n>> \o idx
    ELSE <<Head(idx)>> \o InsertIndex(Tail(idx), n, key)

RECURSIVE SortedIndices(_, _)
SortedIndices(n, key) ==
    IF n = 0 THEN <<>> ELSE InsertIndex(SortedIndices(n - 1, key), n, key)

\* s sorted ascending by key (a sequence of integers as long as s), stably.
StableSortBy(s, key) ==
    LET idx == SortedIndices(Len(s), key)
    IN  [i \in 1..Len(s) |-> s[idx[i]]]

\* commits.reduce((sum, commit) => sum + commit.insertions, 0)
RECURSIVE TotalInsertions(_)
TotalInsertions(cs) ==
    IF cs = <<>> THEN 0 ELSE Head(cs).insertions + TotalInsertions(Tail(cs))

\* The reduce of the deletions, taking the insertions field by mistake.
TotalDeletionsOfInsertions(cs) == TotalInsertions(cs)

\* commits.reduce((sum, commit) => sum + commit.deletions, 0)
RECURSIVE TotalDeletions(_)
TotalDeletions(cs) ==
    IF cs = <<>> THEN 0 ELSE Head(cs).deletions + TotalDeletions(Tail(cs))

\* The Map key NaN of byHour and byDayOfWeek (hour() and day() of an invalid
\* moment).
NaNKey == 0 - 1

HourKey(c) == IF c.date.valid THEN MomentHour(c.date) ELSE NaNKey

DayOfWeekKey(c) == IF c.date.valid THEN MomentDay(c.date) ELSE NaNKey

MonthKey(c) == FormatMonth(c.date)

DayKey(c) == FormatDay(c.date)

\* A frequency Map: every key met, with the number of commits having it.
CountBy(keys) ==
    [k \in {keys[i] : i \in 1..Len(keys)} |->
        Cardinality({i \in 1..Len(keys) : keys[i] = k})]

analyzeTimePatterns(cs) ==
    [byHour |-> CountBy([i \in 1..Len(cs) |-> HourKey(cs[i])]),
     byDayOfWeek |-> CountBy([i \in 1..Len(cs) |-> DayOfWeekKey(cs[i])]),
     byMonth |-> CountBy([i \in 1..Len(cs) |-> MonthKey(cs[i])])]

\* The orders commits.sort((a, b) => a.date.getTime() - b.date.getTime()) may
\* leave the array in: ascending and stable when every date is valid; with
\* an Invalid Date the comparator returns NaN and the order is whatever the
\* engine's sort makes of an inconsistent comparator.
SortedByDate(cs) ==
    IF \A i \in 1..Len(cs) : cs[i].date.valid
    THEN {StableSortBy(cs, [i \in 1..Len(cs) |-> cs[i].date.time])}
    ELSE {[i \in 1..Len(cs) |-> cs[f[i]]] :
            f \in {g \in [1..Len(cs) -> 1..Len(cs)] :
                     \A i, j \in 1..Len(cs) : i # j => g[i] # g[j]}}

\* Array.from(set).sort(): ascending by text.
RECURSIVE SortTexts(_)
SortTexts(S) ==
    IF S = {} THEN <<>>
    ELSE LET m == CHOOSE x \in S : \A y \in S : y = x \/ TextLess(x, y)
         IN  <<m>> \o SortTexts(S \ {m})

\* The day test of analyzeStreaks with >= in place of ===.
AtLeastOneDayApart(prev, curr) ==
    IsDayText(prev) /\ IsDayText(curr) /\ DayOfText(curr) - DayOfText(prev) >= 1

\* currDate.diff(prevDate, 'days') === 1
OneDayApart(prev, curr) ==
    IsDayText(prev) /\ IsDayText(curr) /\ DayOfText(curr) - DayOfText(prev) = 1

\* The first loop of analyzeStreaks, from index i (1-based) on.
RECURSIVE LongestLoop(_, _, _, _)
LongestLoop(dates, i, longestStreak, tempStreak) ==
    IF i > Len(dates) THEN Max(longestStreak, tempStreak)
    ELSE IF OneDayApart(dates[i - 1], dates[i])
         THEN LongestLoop(dates, i + 1, longestStreak, tempStreak + 1)
         ELSE LongestLoop(dates, i + 1, Max(longestStreak, tempStreak), 1)

\* The second loop: walk the dates from the latest down while each equals
\* today minus the days counted so far.  now is today's local day number.
RECURSIVE CurrentLoop(_, _, _, _)
CurrentLoop(dates, i, now, currentStreak) ==
    IF i < 1 THEN currentStreak
    ELSE IF dates[i] = DayText(now - currentStreak)
         THEN CurrentLoop(dates, i - 1, now, currentStreak + 1)
         ELSE currentStreak

\* analyzeStreaks without its early return for an empty commit list.
analyzeStreaksNoEarlyReturn(cs, now) ==
    LET dates == SortTexts({DayKey(cs[i]) : i \in 1..Len(cs)})
    IN  [longestStreak |-> LongestLoop(dates, 2, 1, 1),
         currentStreak |-> CurrentLoop(dates, Len(dates), now, 0),
         totalActiveDays |-> Len(dates)]

analyzeStreaks(cs, now) ==
    IF Len(cs) = 0
    THEN [longestStreak |-> 0, currentStreak |-> 0, totalActiveDays |-> 0]
    ELSE LET dates == SortTexts({DayKey(cs[i]) : i \in 1..Len(cs)})
         IN  [longestStreak |-> LongestLoop(dates, 2, 1, 1),
              currentStreak |-> CurrentLoop(dates, Len(dates), now, 0),
              totalActiveDays |-> Len(dates)]

\* analyzeProjects: one entry for the repository.
analyzeProjects(cs, repo) ==
    <<[path |-> repo, name |-> repo, commits |-> Len(cs),
       lines |-> TotalInsertions(cs) + TotalDeletions(cs)]>>

\* Every changed file of every commit, in order.
RECURSIVE AllFiles(_)
AllFiles(cs) == IF cs = <<>> THEN <<>> ELSE Head(cs).files \o AllFiles(Tail(cs))

\* Math.round(count / total * 100)
RoundPercent(count, total) == (200 * count + total) \div (2 * total)

\* analyzeLanguages: one entry per language in first-seen order.
analyzeLanguages(cs) ==
    LET langs == [i \in 1..Len(AllFiles(cs)) |->
                    GetLanguageFromExtension(FileExt(AllFiles(cs)[i]))]
        keys == FirstSeen(langs)
        totalFiles == Len(langs)
    IN  [i \in 1..Len(keys) |->
            [language |-> keys[i], count |-> CountOf(langs, keys[i]),
             percentage |-> RoundPercent(CountOf(langs, keys[i]), totalFiles)]]

\* sortMap: the entries of a frequency Map ascending by key.
SortMap(m) ==
    LET keys == SortTexts(DOMAIN m)
    IN  [i \in 1..Len(keys) |-> [date |-> keys[i], count |-> m[keys[i]]]]

analyzeTrends(cs) ==
    [monthly |-> SortMap(CountBy([i \in 1..Len(cs) |-> MonthKey(cs[i])])),
     daily |-> SortMap(CountBy([i \in 1..Len(cs) |-> DayKey(cs[i])]))]

\* Array(7).fill(0).map(() => Array(24).fill(0))
EmptyCard == [d \in 0..6 |-> [h \in 0..23 |-> 0]]

\* card[day][hour]++ throws when day is NaN: card[NaN] is undefined.
PunchCardThrows(cs) == \E i \in 1..Len(cs) : ~cs[i].date.valid

\* The loop of analyzePunchCard storing 1 instead of incrementing.
RECURSIVE PunchLoopAssign(_, _)
PunchLoopAssign(cs, card) ==
    IF cs = <<>> THEN card
    ELSE PunchLoopAssign(Tail(cs),
            [card EXCEPT ![MomentDay(Head(cs).date)][MomentHour(Head(cs).date)] = 1])

\* The loop of analyzePunchCard over commits with valid dates.
RECURSIVE PunchLoop(_, _)
PunchLoop(cs, card) ==
    IF cs = <<>> THEN card
    ELSE PunchLoop(Tail(cs),
            [card EXCEPT ![MomentDay(Head(cs).date)][MomentHour(Head(cs).date)] = @ + 1])

\* analyzePunchCard with that loop.
analyzePunchCardAssign(cs) == PunchLoopAssign(cs, EmptyCard)

analyzePunchCard(cs) == PunchLoop(cs, EmptyCard)

\* \w and \s of the keyword regular expressions.
IsWordChar(c) ==
    \/ \E k \in 1..26 : LowerChars[k] = c \/ UpperChars[k] = c
    \/ IsDigit(c) \/ c = "_"

\* replace(/[^\w\s]/g, '')
StripPunctuation(s) == SelectSeq(s, LAMBDA c : IsWordChar(c) \/ c \in WhiteSpace)

\* split(/\s+/), without the empty strings a leading or trailing run of white
\* space yields (the length test drops them).
RECURSIVE Words(_, _)
Words(s, word) ==
    IF s = <<>> THEN (IF word = <<>> THEN <<>> ELSE <<word>>)
    ELSE IF Head(s) \in WhiteSpace
         THEN (IF word = <<>> THEN <<>> ELSE <<word>>) \o Words(Tail(s), <<>>)
         ELSE Words(Tail(s), Append(word, Head(s)))

StopWords ==
    {"the", "a", "an", "to", "in", "for", "of", "and", "or", "with", "by", "from",
     "update", "add", "remove", "fix", "merge", "delete", "create"}

\* The words of one subject that are counted.
CountedWords(message) ==
    LET ws == Words(StripPunctuation(ToLowerCase(message)), <<>>)
    IN  SelectSeq([i \in 1..Len(ws) |-> Str(ws[i])],
                  LAMBDA w : Len(w) > 2 /\ w \notin StopWords)

RECURSIVE AllWords(_)
AllWords(cs) ==
    IF cs = <<>> THEN <<>> ELSE CountedWords(Head(cs).message) \o AllWords(Tail(cs))

\* Array.prototype.slice(0, n)
SliceTo(s, n) == SubSeq(s, 1, Min(n, Len(s)))

\* analyzeKeywords: the words in first-seen order, sorted by descending count
\* (stably), the first twenty kept.
analyzeKeywords(cs) ==
    LET ws == AllWords(cs)
        keys == FirstSeen(ws)
        entries == [i \in 1..Len(keys) |->
                       [word |-> keys[i], count |-> CountOf(ws, keys[i])]]
    IN  SliceTo(StableSortBy(entries, [i \in 1..Len(entries) |-> 0 - entries[i].count]),
                20)

(***************************************************************************)
(* Achievements and persona.  An achievement is modelled by its id and its *)
(* unlocked flag; names, descriptions, icons and progress texts are left   *)
(* out.  The subject patterns are /fix|bug|.../i and /refactor|.../i; their *)
(* non-ASCII alternatives cannot match the ASCII subjects of the model.     *)
(***************************************************************************)
BugFixThreshold == 30

\* commits.filter(test).length, flags[i] telling whether commit i passes.
CountCommits(flags) == Cardinality({i \in 1..Len(flags) : flags[i]})

\* /fix|bug/i.test(c.message)
IsBugFix(c) ==
    \/ Includes(ToLowerCase(c.message), <<"f", "i", "x">>)
    \/ Includes(ToLowerCase(c.message), <<"b", "u", "g">>)

\* /refactor/i.test(c.message)
IsRefactor(c) ==
    Includes(ToLowerCase(c.message), <<"r", "e", "f", "a", "c", "t", "o", "r">>)

\* c.files.some(f => f.endsWith('.md'))
IsDoc(c) == \E i \in 1..Len(c.files) : EndsWith(c.files[i], <<".", "m", "d">>)

\* Comparisons with the NaN hour or day of an invalid date are false.
IsNight(c) == c.date.valid /\ MomentHour(c.date) >= 0 /\ MomentHour(c.date) < 5

IsMidnight(c) == c.date.valid /\ MomentHour(c.date) >= 0 /\ MomentHour(c.date) <= 1

IsWeekend(c) == c.date.valid /\ (MomentDay(c.date) = 0 \/ MomentDay(c.date) = 6)

IsEarly(c) == c.date.valid /\ MomentHour(c.date) >= 5 /\ MomentHour(c.date) <= 8

\* Math.max(...dailyCommits.values(), 0)
MaxDailyCommits(cs) ==
    LET daily == CountBy([i \in 1..Len(cs) |-> DayKey(cs[i])])
    IN  IF DOMAIN daily = {} THEN 0
        ELSE CHOOSE n \in {daily[k] : k \in DOMAIN daily} :
                 \A k \in DOMAIN daily : daily[k] <= n

\* The mean-lines test without its "> 0" half.
MeanLinesBelow50(stats) ==
    \/ stats.totalCommits <= 0
    \/ stats.totalInsertions + stats.totalDeletions < 50 * stats.totalCommits

\* a / b on numbers: the quotient is kept as a fraction; den = 0 stands for
\* what JavaScript gives on a zero divisor, NaN (num = 0) or an infinity.
Divide(a, b) == [num |-> a, den |-> b]

IsFinite(q) == q.den # 0

\* q > n and q < n; every comparison with NaN is false.
GreaterThan(q, n) ==
    IF q.den > 0 THEN q.num > n * q.den
    ELSE IF q.den < 0 THEN q.num < n * q.den ELSE q.num > 0

LessThan(q, n) ==
    IF q.den > 0 THEN q.num < n * q.den
    ELSE IF q.den < 0 THEN q.num > n * q.den ELSE q.num < 0

\* The mean without its totalCommits > 0 guard.
avgLinesUnguarded(stats) ==
    Divide(stats.totalInsertions + stats.totalDeletions, stats.totalCommits)

\* totalCommits > 0 ? (totalInsertions + totalDeletions) / totalCommits : 0
avgLinesPerCommit(stats) ==
    IF stats.totalCommits > 0
    THEN Divide(stats.totalInsertions + stats.totalDeletions, stats.totalCommits)
    ELSE Divide(0, 1)

\* totalDeletions / (totalInsertions || 1)
refactorRatio(stats) ==
    Divide(stats.totalDeletions,
           IF stats.totalInsertions = 0 THEN 1 ELSE stats.totalInsertions)

\* avgLinesPerCommit > 0 && avgLinesPerCommit < 50
MeanLinesUnlocked(stats) ==
    /\ GreaterThan(avgLinesPerCommit(stats), 0)
    /\ LessThan(avgLinesPerCommit(stats), 50)

\* refactorRatio >= 0.5
RefactorRatioUnlocked(stats) ==
    LET twice == Divide(2 * refactorRatio(stats).num, refactorRatio(stats).den)
    IN  IsFinite(twice) /\ ~LessThan(twice, 1)

\* The catalogue in the order calculateAchievements builds it.
AchievementRules(stats, cs) ==
    << [id |-> "first-commit", unlocked |-> stats.totalCommits > 0],
       [id |-> "100-commits", unlocked |-> stats.totalCommits >= 100],
       [id |-> "500-commits", unlocked |-> stats.totalCommits >= 500],
       [id |-> "1000-commits", unlocked |-> stats.totalCommits >= 1000],
       [id |-> "night-owl",
        unlocked |-> CountCommits([i \in 1..Len(cs) |-> IsNight(cs[i])]) >= 20],
       [id |-> "weekend-warrior",
        unlocked |-> CountCommits([i \in 1..Len(cs) |-> IsWeekend(cs[i])]) >= 50],
       [id |-> "consistency-king", unlocked |-> stats.streakStats.longestStreak >= 7],
       [id |-> "polyglot", unlocked |-> Len(stats.languageStats) >= 5],
       [id |-> "early-bird",
        unlocked |-> CountCommits([i \in 1..Len(cs) |-> IsEarly(cs[i])]) >= 10],
       [id |-> "midnight-coder",
        unlocked |-> CountCommits([i \in 1..Len(cs) |-> IsMidnight(cs[i])]) >= 10],
       [id |-> "code-rocket", unlocked |-> MaxDailyCommits(cs) >= 10],
       [id |-> "bug-terminator",
        unlocked |-> CountCommits([i \in 1..Len(cs) |-> IsBugFix(cs[i])])
                       >= BugFixThreshold],
       [id |-> "refactor-artist",
        unlocked |-> CountCommits([i \in 1..Len(cs) |-> IsRefactor(cs[i])]) >= 15],
       [id |-> "doc-master",
        unlocked |-> CountCommits([i \in 1..Len(cs) |-> IsDoc(cs[i])]) >= 20],
       [id |-> "quality-guardian", unlocked |-> MeanLinesUnlocked(stats)],
       [id |-> "code-giant", unlocked |-> stats.netLines >= 10000],
       [id |-> "minimalist", unlocked |-> RefactorRatioUnlocked(stats)],
       [id |-> "active-developer",
        unlocked |-> stats.streakStats.totalActiveDays >= 100] >>

\* calculateAchievements returning the whole catalogue, unfiltered.
calculateAchievementsUnfiltered(stats, cs) == AchievementRules(stats, cs)

\* calculateAchievements: achievements.filter(a => a.unlocked)
calculateAchievements(stats, cs) ==
    SelectSeq(AchievementRules(stats, cs), LAMBDA a : a.unlocked)

\* stats.timeStats.byHour.get(23) || 0 > 50, which JavaScript reads as
\* byHour.get(23) || (0 > 50): truthy when any commit was made at hour 23.
LateHourTest(stats) ==
    23 \in DOMAIN stats.timeStats.byHour /\ stats.timeStats.byHour[23] # 0

\* calculatePersona.  Titles are named in English; year is
\* new Date().getFullYear().
calculatePersona(stats, year) ==
    LET topLang == IF Len(stats.languageStats) > 0
                   THEN stats.languageStats[1].language ELSE "Code"
        title == IF stats.totalCommits > 1000
                 THEN (IF stats.netLines > 50000 THEN "code-creator"
                       ELSE "full-stack-artist")
                 ELSE IF stats.totalCommits > 500
                 THEN (IF stats.streakStats.longestStreak > 30 THEN "persistent-master"
                       ELSE "senior-developer")
                 ELSE IF stats.totalCommits > 100 THEN topLang \o " engineer"
                 ELSE "apprentice"
    IN  IF stats.totalDeletions > stats.totalInsertions
        THEN [title |-> "minimalist", description |-> <<"less-is-more">>]
        ELSE IF stats.streakStats.longestStreak > 60
        THEN [title |-> "marathon-runner", description |-> <<"marathon">>]
        ELSE IF LateHourTest(stats)
        THEN [title |-> "night-watch", description |-> <<"night-watch">>]
        ELSE [title |-> title,
              description |-> <<"summary", year, stats.totalCommits, stats.netLines>>]

(***************************************************************************)
(* The log-fetch collaborator: the text `git log --numstat                 *)
(* --format=%H%n%aI%n%s%n%aN%n%aE` writes, line by line.                   *)
(***************************************************************************)
\* %aI: the author date in strict ISO 8601 with the author's zone offset.
IsoLine(y, m, d, h, mi, offH) ==
    Two(y \div 100) \o Two(y % 100) \o <<"-">> \o Two(m) \o <<"-">> \o Two(d) \o <<"T">>
    \o Two(h) \o <<":">> \o Two(mi) \o <<":">> \o Two(0)
    \o (IF offH < 0 THEN <<"-">> ELSE <<"+">>)
    \o Two(IF offH < 0 THEN 0 - offH ELSE offH) \o <<":">> \o Two(0)

\* %H: forty hexadecimal digits.
HashLine(c) == [i \in 1..40 |-> c]

\* The headers of the records, in the order written.
Headers ==
    << <<HashLine("a"), IsoLine(2024, 3, 1, 23, 30, 8),
         <<"f", "i", "x", " ", "l", "o", "g", "i", "n", " ", "b", "u", "g">>,
         <<"A", "n", "n">>, <<"a", "@", "x", ".", "i", "o">> >>,
       <<HashLine("b"), IsoLine(2024, 3, 2, 9, 5, 0),
         <<"R", "e", "f", "a", "c", "t", "o", "r", " ", "p", "a", "r", "s", "e", "r">>,
         <<"B", "o", "b">>, <<"b", "@", "x", ".", "i", "o">> >>,
       <<HashLine("c"), IsoLine(2024, 2, 29, 1, 0, -5),
         <<"d", "o", "c", "s", ":", " ", "g", "u", "i", "d", "e">>,
         <<"A", "n", "n">>, <<"a", "@", "x", ".", "i", "o">> >>,
       <<HashLine("d"), IsoLine(2023, 12, 31, 20, 15, 8),
         <<"i", "n", "i", "t">>,
         <<"B", "o", "b">>, <<"b", "@", "x", ".", "i", "o">> >> >>

HeaderOf(k) == Headers[((k - 1) % Len(Headers)) + 1]

\* --numstat lines: insertions TAB deletions TAB path ('-' for a binary file);
\* the last one has damaged numeric fields.
StatLines ==
    << <<"3", TAB, "1", TAB, "m", "a", "i", "n", ".", "g", "o">>,
       <<"-", TAB, "-", TAB, "l", "o", "g", "o", ".", "p", "n", "g">>,
       <<"1", "2", TAB, "7", TAB, "R", "E", "A", "D", "M", "E", ".", "m", "d">>,
       <<"-", "5", TAB, "x", TAB, "b", ".", "p", "y">> >>

\* Lines that are neither blank nor a three-field stat line nor shaped like a hash.
MalformedLines ==
    << <<"o", "o", "p", "s">>,
       <<"1", TAB, "2">>,
       <<"1", TAB, "2", TAB, "a", ".", "t", "s", TAB, "b", ".", "t", "s">> >>

BlankLines == << <<>>, <<" ">> >>

Pick(seq, n) == seq[(n % Len(seq)) + 1]

\* Lines written after the headers so far, and before the first header.
BodyCount == Len(lines) - 5 * Len(groups) - (IF groups = <<>> THEN 0 ELSE groups[1])

ParserIdle ==
    /\ lineIdx = 0 /\ state = "meta" /\ currentCommit = NULL /\ commits = <<>>

AnalysisIdle == /\ today = 0 /\ result = NULL /\ results = <<>> /\ merged = NULL

\* No object has been allocated.
EmptyHeap == <<>>

\* generateReport is not running.
CliIdle == /\ repos = <<>> /\ repoIdx = 0 /\ report = NULL

FetchInit == /\ pc = "fetch" /\ lines = <<>> /\ groups = <<>>
             /\ ParserIdle /\ AnalysisIdle /\ CliIdle /\ heap = EmptyHeap /\ parsedBefore = NULL

\* A blank line: before the first header, between a header and its stat
\* lines, between records, or at the end of the text.
WriteBlank ==
    /\ pc = "fetch"
    /\ IF groups = <<>> THEN Len(lines) < MaxPad ELSE BodyCount < MaxBody
    /\ lines' = Append(lines, Pick(BlankLines, Len(lines)))
    /\ UNCHANGED <<pc, lineIdx, state, currentCommit, commits, groups, today,
                   result, results, merged>>
    /\ UNCHANGED <<cliVars, heap, parsedBefore>>

\* The five header lines of the next record.
WriteHeader ==
    /\ pc = "fetch"
    /\ Len(groups) < MaxRecords
    /\ lines' = lines \o HeaderOf(Len(groups) + 1)
    /\ groups' = Append(groups, Len(lines))
    /\ UNCHANGED <<pc, lineIdx, state, currentCommit, commits, today,
                   result, results, merged>>
    /\ UNCHANGED <<cliVars, heap, parsedBefore>>

\* A stat line of the record written last.
WriteStat ==
    /\ pc = "fetch"
    /\ groups # <<>> /\ BodyCount < MaxBody
    /\ lines' = Append(lines, Pick(StatLines, Len(lines)))
    /\ UNCHANGED <<pc, lineIdx, state, currentCommit, commits, groups, today,
                   result, results, merged>>
    /\ UNCHANGED <<cliVars, heap, parsedBefore>>

\* A damaged line among the stat lines.
WriteMalformed ==
    /\ pc = "fetch"
    /\ groups # <<>> /\ BodyCount < MaxBody
    /\ lines' = Append(lines, Pick(MalformedLines, Len(lines)))
    /\ UNCHANGED <<pc, lineIdx, state, currentCommit, commits, groups, today,
                   result, results, merged>>
    /\ UNCHANGED <<cliVars, heap, parsedBefore>>

\* The text ends inside a header: only its first k < 5 lines were written.
WriteTruncated ==
    /\ pc = "fetch"
    /\ \E k \in 1..4 :
          lines' = lines \o SubSeq(HeaderOf(Len(groups) + 1), 1, k)
    /\ pc' = "parse"
    /\ UNCHANGED <<lineIdx, state, currentCommit, commits, groups, today,
                   result, results, merged>>
    /\ UNCHANGED <<cliVars, heap, parsedBefore>>

\* The text is complete: parseRawLog(logOutput) starts.  ''.split('\n') is [''].
FetchDone ==
    /\ pc = "fetch"
    /\ lines' = IF lines = <<>> THEN << <<>> >> ELSE lines
    /\ pc' = "parse"
    /\ UNCHANGED <<lineIdx, state, currentCommit, commits, groups, today,
                   result, results, merged>>
    /\ UNCHANGED <<cliVars, heap, parsedBefore>>

(***************************************************************************)
(* parseRawLog as steps: one action per loop iteration, then the return.   *)
(***************************************************************************)
ParserState ==
    [lineIdx |-> lineIdx, state |-> state, currentCommit |-> currentCommit,
     commits |-> commits, broke |-> (pc = "broke")]

InLoop == pc = "parse" /\ lineIdx < Len(lines)

ApplyIteration ==
    LET q == ParseIteration(lines, ParserState)
    IN  /\ lineIdx' = q.lineIdx
        /\ state' = q.state
        /\ currentCommit' = q.currentCommit
        /\ commits' = q.commits
        /\ pc' = IF q.broke THEN "broke" ELSE "parse"
        /\ UNCHANGED <<lines, groups, today, result, results, merged>>
        /\ UNCHANGED <<cliVars, heap, parsedBefore>>

\* Meta: read five lines and the blank lines after them, or break.
MetaStep == InLoop /\ state = "meta" /\ ApplyIteration

\* Stats, at a line shaped like a hash: finalize, then Meta at the same line.
BoundaryStep ==
    InLoop /\ state = "stats" /\ LooksLikeHash(lines[lineIdx + 1]) /\ ApplyIteration

\* Stats, at any other line: blank, stat line or malformed.
StatsStep ==
    InLoop /\ state = "stats" /\ ~LooksLikeHash(lines[lineIdx + 1]) /\ ApplyIteration

\* After the loop: finalizeCommit(); return commits.
ParseReturn ==
    /\ pc = "broke" \/ (pc = "parse" /\ lineIdx >= Len(lines))
    /\ commits' = finalizeCommit(currentCommit, commits)
    /\ pc' = "parsed"
    /\ UNCHANGED <<lines, lineIdx, state, currentCommit, groups, today,
                   result, results, merged>>
    /\ UNCHANGED <<cliVars, heap, parsedBefore>>

\* parseRawLog is called again on the same text: its locals are initialised
\* anew, and what the first call returned is kept for comparison.
ParseAgain ==
    /\ pc = "parsed"
    /\ parsedBefore = NULL
    /\ parsedBefore' = [commits |-> commits]
    /\ lineIdx' = ParserStart.lineIdx
    /\ state' = ParserStart.state
    /\ currentCommit' = ParserStart.currentCommit
    /\ commits' = ParserStart.commits
    /\ pc' = "parse"
    /\ UNCHANGED <<lines, groups, today, result, results, merged, heap>>
    /\ UNCHANGED cliVars

ParseNext ==
    \/ WriteBlank \/ WriteHeader \/ WriteStat \/ WriteMalformed
    \/ WriteTruncated \/ FetchDone
    \/ MetaStep \/ BoundaryStep \/ StatsStep \/ ParseReturn

SpecParse == FetchInit /\ [][ParseNext]_vars

\* parseRawLog is sequential code: between its call and its return it goes
\* on to its next step, an iteration of the loop, the break or the return,
\* each of which moves its control position <<pc, lineIdx>>.
ParserRuns ==
    /\ pc \in {"parse", "broke"}
    /\ pc' \in {"parse", "broke", "parsed"}
    /\ lineIdx' \in lineIdx..Len(lines)

\* Texts of blank lines, headers, stat lines and a trailing partial header.
ParseFairNext ==
    \/ WriteBlank \/ WriteHeader \/ WriteStat \/ WriteTruncated \/ FetchDone
    \/ MetaStep \/ BoundaryStep \/ StatsStep \/ ParseReturn

SpecParseFair == FetchInit /\ [][ParseFairNext]_vars /\ WF_<<pc, lineIdx>>(ParserRuns)

\* The text of a log that ends with a complete record is parsed
\* twice.
ParseTwiceNext ==
    \/ WriteBlank \/ WriteHeader \/ WriteStat \/ WriteMalformed \/ FetchDone
    \/ MetaStep \/ BoundaryStep \/ StatsStep \/ ParseReturn \/ ParseAgain

SpecParseTwice == FetchInit /\ [][ParseTwiceNext]_vars


(***************************************************************************)
(* analyze(): getCommits(), then the statistics, the result object, the    *)
(* achievements and the persona.  The log is written record by record.     *)
(***************************************************************************)
\* The records a log is made of: timestamp, subject, stat lines.  In the
\* local zone the timestamps are Fri 1 Mar 23:30, Sat 2 Mar 17:05,
\* Thu 29 Feb 14:00, Sun 3 Mar 00:10, and an unreadable one.
LogRecords ==
    << [stamp |-> IsoLine(2024, 3, 1, 23, 30, 8),
        subject |-> <<"f", "i", "x", " ", "l", "o", "g", "i", "n", " ", "b", "u", "g">>,
        stats |-> << <<"3", TAB, "1", TAB, "m", "a", "i", "n", ".", "g", "o">> >>],
       [stamp |-> IsoLine(2024, 3, 2, 9, 5, 0),
        subject |-> <<"R", "e", "f", "a", "c", "t", "o", "r", " ", "p", "a", "r", "s",
                      "e", "r">>,
        stats |-> << <<"-", TAB, "-", TAB, "l", "o", "g", "o", ".", "p", "n", "g">>,
                     <<"1", "2", TAB, "7", TAB, "R", "E", "A", "D", "M", "E", ".",
                       "m", "d">> >>],
       [stamp |-> IsoLine(2024, 2, 29, 1, 0, -5),
        subject |-> <<"d", "o", "c", "s", ":", " ", "p", "a", "r", "s", "e", "r", " ",
                      "g", "u", "i", "d", "e">>,
        stats |-> <<>>],
       [stamp |-> IsoLine(2024, 3, 2, 16, 10, 0),
        subject |-> <<"F", "i", "x", " ", "t", "y", "p", "o">>,
        stats |-> << <<"1", TAB, "5", TAB, "s", "r", "c", "/", "a", ".", "t", "s">> >>],
       [stamp |-> <<"n", "o", " ", "d", "a", "t", "e">>,
        subject |-> <<"w", "i", "p">>,
        stats |-> << <<"3", TAB, "1", TAB, "m", "a", "i", "n", ".", "g", "o">> >>],
       [stamp |-> IsoLine(2024, 3, 5, 10, 0, 8),
        subject |-> <<"m", "e", "r", "g", "e", " ", "b", "r", "a", "n", "c", "h">>,
        stats |-> << <<"2", TAB, "2", TAB, "a", "p", "p", ".", "p", "y">> >>] >>

HexChars == <<"a", "b", "c", "d", "e", "f", "0", "1", "2", "3", "4", "5">>

\* The lines of the n-th record of a log: header, blank line, stat lines.
RecordLines(r, n) ==
    <<HashLine(Pick(HexChars, n)), LogRecords[r].stamp, LogRecords[r].subject,
      <<"A", "n", "n">>, <<"a", "@", "x", ".", "i", "o">>, <<>> >>
    \o LogRecords[r].stats

\* The days analyze() may run on: 2, 3 and 4 March 2024.
Todays == {DaysFromCivil(2024, 3, d) : d \in {2, 3, 4}}

\* new Date().getFullYear()
YearOf(day) == CivilFromDays(day)[1]

AnalyzeInit ==
    /\ pc = "log" /\ lines = <<>> /\ groups = <<>> /\ ParserIdle /\ CliIdle /\ heap = EmptyHeap /\ parsedBefore = NULL
    /\ today \in Todays
    /\ result = NULL /\ results = <<>> /\ merged = NULL

\* git log writes one more record.
LogRecord ==
    /\ pc = "log"
    /\ Len(groups) < MaxCommits
    /\ \E r \in 1..Len(LogRecords) :
          lines' = lines \o RecordLines(r, Len(groups))
    /\ groups' = Append(groups, Len(lines))
    /\ UNCHANGED <<pc, lineIdx, state, currentCommit, commits, today,
                   result, results, merged>>
    /\ UNCHANGED <<cliVars, heap, parsedBefore>>

\* getCommits(): return this.parseRawLog(logOutput).
GetCommits ==
    /\ pc = "log"
    /\ commits' = parseRawLog(IF lines = <<>> THEN << <<>> >> ELSE lines)
    /\ pc' = "analyze"
    /\ UNCHANGED <<lines, lineIdx, state, currentCommit, groups, today,
                   result, results, merged>>
    /\ UNCHANGED <<cliVars, heap, parsedBefore>>

\* The statistics analyze() computes before the result object is built:
\* analyzeTimePatterns on the commits as parsed, analyzeStreaks (which sorts
\* them in place, leaving sorted), then analyzeProjects and the two totals.
Statistics(cs, sorted, now) ==
    [timeStats |-> analyzeTimePatterns(cs),
     streakStats |-> analyzeStreaks(cs, now),
     projectStats |-> analyzeProjects(sorted, "repo"),
     totalInsertions |-> TotalInsertions(sorted),
     totalDeletions |-> TotalDeletions(sorted)]

AnalyzeStats ==
    /\ pc = "analyze"
    /\ commits' \in (IF Len(commits) = 0 THEN {commits} ELSE SortedByDate(commits))
    /\ result' = Statistics(commits, commits', today)
    /\ pc' = "stats"
    /\ UNCHANGED <<lines, lineIdx, state, currentCommit, groups, today,
                   results, merged>>
    /\ UNCHANGED <<cliVars, heap, parsedBefore>>

\* The result object literal of analyze().
ResultObject(stats, cs) ==
    [totalCommits |-> Len(cs),
     totalInsertions |-> stats.totalInsertions,
     totalDeletions |-> stats.totalDeletions,
     netLines |-> stats.totalInsertions - stats.totalDeletions,
     languageStats |-> analyzeLanguages(cs),
     timeStats |-> stats.timeStats,
     streakStats |-> stats.streakStats,
     projectStats |-> stats.projectStats,
     commitTrends |-> analyzeTrends(cs),
     punchCard |-> analyzePunchCard(cs),
     topKeywords |-> analyzeKeywords(cs),
     achievements |-> <<>>,
     persona |-> [title |-> "", description |-> <<>>]]

\* The result object is built; analyzePunchCard raises a TypeError when a
\* commit has an Invalid Date, and analyze() ends with it.
BuildResult ==
    /\ pc = "stats"
    /\ ~PunchCardThrows(commits)
    /\ result' = ResultObject(result, commits)
    /\ pc' = "built"
    /\ UNCHANGED <<lines, lineIdx, state, currentCommit, commits, groups, today,
                   results, merged>>
    /\ UNCHANGED <<cliVars, heap, parsedBefore>>

BuildResultThrows ==
    /\ pc = "stats"
    /\ PunchCardThrows(commits)
    /\ result' = NULL
    /\ pc' = "threw"
    /\ UNCHANGED <<lines, lineIdx, state, currentCommit, commits, groups, today,
                   results, merged>>
    /\ UNCHANGED <<cliVars, heap, parsedBefore>>

\* result.achievements and result.persona are filled in; analyze() returns.
WithAchievements(res, cs, year) ==
    LET r == [res EXCEPT !.achievements = calculateAchievements(res, cs)]
    IN  [r EXCEPT !.persona = calculatePersona(r, year)]

FinishAnalysis ==
    /\ pc = "built"
    /\ result' = WithAchievements(result, commits, YearOf(today))
    /\ pc' = "done"
    /\ UNCHANGED <<lines, lineIdx, state, currentCommit, commits, groups, today,
                   results, merged>>
    /\ UNCHANGED <<cliVars, heap, parsedBefore>>

AnalyzeNext ==
    \/ LogRecord \/ GetCommits \/ AnalyzeStats
    \/ BuildResult \/ BuildResultThrows \/ FinishAnalysis

SpecAnalyze == AnalyzeInit /\ [][AnalyzeNext]_vars

(***************************************************************************)
(* MultiRepositoryMerger: mergeAnalysisResults and addProjectMilestones.   *)
(* An input is [result, projectPath, projectName].                         *)
(***************************************************************************)
\* Sum over the inputs of a number read from each result.
RECURSIVE SumResults(_, _)
SumResults(rs, field) ==
    IF rs = <<>> THEN 0 ELSE Head(rs).result[field] + SumResults(Tail(rs), field)

\* merged.netLines taken from the last input instead of accumulated.
MergedNetLinesLast(rs) == rs[Len(rs)].result.netLines

\* merged.netLines += result.netLines
MergedNetLines(rs) == SumResults(rs, "netLines")

\* Key-wise sum of the inputs' frequency Maps timeStats[which].
MergedTimeMap(rs, which) ==
    LET keys == UNION {DOMAIN rs[i].result.timeStats[which] : i \in 1..Len(rs)}
        at(i, k) == IF k \in DOMAIN rs[i].result.timeStats[which]
                    THEN rs[i].result.timeStats[which][k] ELSE 0
    IN  [k \in keys |-> SumTo([i \in 1..Len(rs) |-> at(i, k)], Len(rs))]

\* merged.punchCard[i][j] += result.punchCard[i][j]
MergedPunchCard(rs) ==
    [d \in 0..6 |-> [h \in 0..23 |->
        SumTo([i \in 1..Len(rs) |-> rs[i].result.punchCard[d][h]], Len(rs))]]

\* The streak figure of the last input instead of the maximum.
MaxStreakLast(rs, field) == rs[Len(rs)].result.streakStats[field]

\* Math.max over the inputs of a streak figure, starting from 0.
RECURSIVE MaxStreak(_, _)
MaxStreak(rs, field) ==
    IF rs = <<>> THEN 0
    ELSE Max(MaxStreak(SubSeq(rs, 1, Len(rs) - 1), field),
             rs[Len(rs)].result.streakStats[field])

RECURSIVE SumActiveDays(_)
SumActiveDays(rs) ==
    IF rs = <<>> THEN 0
    ELSE Head(rs).result.streakStats.totalActiveDays + SumActiveDays(Tail(rs))

\* The inputs' language entries, one after the other.
RECURSIVE AllLanguageEntries(_)
AllLanguageEntries(rs) ==
    IF rs = <<>> THEN <<>>
    ELSE Head(rs).result.languageStats \o AllLanguageEntries(Tail(rs))

\* (stats.count / totalLanguageCount) * 100, kept as a fraction; 0 when the
\* total is 0.
Percentage(count, total) ==
    IF total > 0 THEN Divide(count * 100, total) ELSE Divide(0, 1)

\* merged.languageStats: counts summed by language in first-seen order,
\* percentages recomputed, entries sorted by descending count.
MergedLanguages(rs) ==
    LET all == AllLanguageEntries(rs)
        keys == FirstSeen([i \in 1..Len(all) |-> all[i].language])
        countOf(l) == SumTo([i \in 1..Len(all) |->
                               IF all[i].language = l THEN all[i].count ELSE 0],
                            Len(all))
        total == SumTo([i \in 1..Len(keys) |-> countOf(keys[i])], Len(keys))
        entries == [i \in 1..Len(keys) |->
                      [language |-> keys[i], count |-> countOf(keys[i]),
                       percentage |-> Percentage(countOf(keys[i]), total)]]
    IN  StableSortBy(entries, [i \in 1..Len(entries) |-> 0 - entries[i].count])

RECURSIVE AllTrends(_, _)
AllTrends(rs, which) ==
    IF rs = <<>> THEN <<>>
    ELSE Head(rs).result.commitTrends[which] \o AllTrends(Tail(rs), which)

RECURSIVE AllProjectStats(_)
AllProjectStats(rs) ==
    IF rs = <<>> THEN <<>>
    ELSE Head(rs).result.projectStats \o AllProjectStats(Tail(rs))

\* The monthly series re-aggregated by date key and sorted ascending.
MergedMonthly(rs) ==
    LET all == AllTrends(rs, "monthly")
        keys == {all[i].date : i \in 1..Len(all)}
    IN  SortMap([k \in keys |->
                   SumTo([i \in 1..Len(all) |->
                            IF all[i].date = k THEN all[i].count ELSE 0], Len(all))])

\* projectDetails with every project marked active.
ProjectDetailsAllActive(rs) ==
    LET details == [i \in 1..Len(rs) |->
                      [path |-> rs[i].projectPath, name |-> rs[i].projectName,
                       commits |-> rs[i].result.totalCommits,
                       lines |-> rs[i].result.netLines,
                       active |-> TRUE]]
    IN  StableSortBy(details, [i \in 1..Len(details) |-> 0 - details[i].commits])

\* projectDetails, sorted by descending commit count.
ProjectDetails(rs) ==
    LET details == [i \in 1..Len(rs) |->
                      [path |-> rs[i].projectPath, name |-> rs[i].projectName,
                       commits |-> rs[i].result.totalCommits,
                       lines |-> rs[i].result.netLines,
                       active |-> rs[i].result.totalCommits > 0]]
    IN  StableSortBy(details, [i \in 1..Len(details) |-> 0 - details[i].commits])

Unlocked(id) == [id |-> id, unlocked |-> TRUE]

\* The milestones with the lowest tiers tested by `>` instead of `>=`.
ProjectMilestonesAbove(totalProjects, activeCount) ==
    (IF totalProjects >= 50 THEN <<Unlocked("project-collector-50")>>
     ELSE IF totalProjects >= 20 THEN <<Unlocked("project-explorer-20")>>
     ELSE IF totalProjects >= 10 THEN <<Unlocked("project-jumper-10")>>
     ELSE IF totalProjects > 5 THEN <<Unlocked("project-nomad-5")>>
     ELSE <<>>)
    \o (IF activeCount >= 10 THEN <<Unlocked("active-projects-10")>>
        ELSE IF activeCount > 5 THEN <<Unlocked("active-projects-5")>>
        ELSE <<>>)
    \o (IF totalProjects >= 10 /\ activeCount <= 3
        THEN <<Unlocked("focused-developer")>> ELSE <<>>)
    \o (IF totalProjects = 1 /\ activeCount = 1
        THEN <<Unlocked("loyal-developer")>> ELSE <<>>)

\* The achievements addProjectMilestones pushes, in order.
ProjectMilestones(totalProjects, activeCount) ==
    (IF totalProjects >= 50 THEN <<Unlocked("project-collector-50")>>
     ELSE IF totalProjects >= 20 THEN <<Unlocked("project-explorer-20")>>
     ELSE IF totalProjects >= 10 THEN <<Unlocked("project-jumper-10")>>
     ELSE IF totalProjects >= 5 THEN <<Unlocked("project-nomad-5")>>
     ELSE <<>>)
    \o (IF activeCount >= 10 THEN <<Unlocked("active-projects-10")>>
        ELSE IF activeCount >= 5 THEN <<Unlocked("active-projects-5")>>
        ELSE <<>>)
    \o (IF totalProjects >= 10 /\ activeCount <= 3
        THEN <<Unlocked("focused-developer")>> ELSE <<>>)
    \o (IF (IF activeCount > 0 THEN 1 ELSE 0) >= 5
        THEN <<Unlocked("language-diversity-5")>> ELSE <<>>)
    \o (IF totalProjects = 1 /\ activeCount = 1
        THEN <<Unlocked("loyal-developer")>> ELSE <<>>)

\* The persona addProjectMilestones leaves in merged.
ProjectPersona(persona, totalProjects, year) ==
    IF totalProjects >= 20
    THEN [title |-> "project-explorer", description |-> <<"explorer", year, totalProjects>>]
    ELSE IF totalProjects >= 10
    THEN [title |-> "versatile-developer",
          description |-> <<"versatile", year, totalProjects>>]
    ELSE IF totalProjects >= 5
    THEN [title |-> "project-jumper", description |-> <<"nomad", year, totalProjects>>]
    ELSE persona

addProjectMilestones(m, projectDetails, year) ==
    LET totalProjects == Len(projectDetails)
        activeCount == Len(SelectSeq(projectDetails, LAMBDA q : q.active))
    IN  [m EXCEPT !.achievements = @ \o ProjectMilestones(totalProjects, activeCount),
                  !.persona = ProjectPersona(@, totalProjects, year)]

\* The merged object of mergeAnalysisResults once the inputs are added up,
\* the language percentages recomputed, the monthly series re-aggregated and
\* the keywords taken from the first input; achievements and persona are
\* still the initial ones.
MergedBase(rs) ==
    [totalCommits |-> SumResults(rs, "totalCommits"),
     totalInsertions |-> SumResults(rs, "totalInsertions"),
     totalDeletions |-> SumResults(rs, "totalDeletions"),
     netLines |-> MergedNetLines(rs),
     languageStats |-> MergedLanguages(rs),
     timeStats |-> [byHour |-> MergedTimeMap(rs, "byHour"),
                    byDayOfWeek |-> MergedTimeMap(rs, "byDayOfWeek"),
                    byMonth |-> MergedTimeMap(rs, "byMonth")],
     streakStats |-> [longestStreak |-> MaxStreak(rs, "longestStreak"),
                      currentStreak |-> MaxStreak(rs, "currentStreak"),
                      totalActiveDays |-> SumActiveDays(rs)],
     projectStats |-> AllProjectStats(rs),
     commitTrends |-> [monthly |-> MergedMonthly(rs),
                       daily |-> AllTrends(rs, "daily")],
     punchCard |-> MergedPunchCard(rs),
     topKeywords |-> rs[1].result.topKeywords,
     achievements |-> <<>>,
     persona |-> [title |-> "apprentice", description |-> <<"analysing">>]]

\* return { ...merged, projectDetails }
MergeReturn(m, projectDetails) ==
    [totalCommits |-> m.totalCommits, totalInsertions |-> m.totalInsertions,
     totalDeletions |-> m.totalDeletions, netLines |-> m.netLines,
     languageStats |-> m.languageStats, timeStats |-> m.timeStats,
     streakStats |-> m.streakStats, projectStats |-> m.projectStats,
     commitTrends |-> m.commitTrends, punchCard |-> m.punchCard,
     topKeywords |-> m.topKeywords, achievements |-> m.achievements,
     persona |-> m.persona, projectDetails |-> projectDetails]

(***************************************************************************)
(* The objects of the results that the merger can reach by reference: the  *)
(* {count, percentage} entries of the language Maps, the achievements       *)
(* arrays and the keyword arrays.  A reference is <<kind, owner, key>>,    *)
(* owner i > 0 being the i-th collected result and owner 0 the merged      *)
(* object.  A percentage is kept in the heap as the fraction num / den.    *)
(***************************************************************************)
EntryRef(i, language) == <<"languageEntry", i, language>>

AchievementsRef(i) == <<"achievements", i, "">>

KeywordsRef(i) == <<"topKeywords", i, "">>

Whole(n) == [num |-> n, den |-> 1]

\* The objects analyze() allocated for the i-th collected result.
AllocInput(h, i, res) ==
    h @@ [r \in {EntryRef(i, res.languageStats[k].language) :
                    k \in 1..Len(res.languageStats)} |->
            LET k == CHOOSE k \in 1..Len(res.languageStats) :
                         res.languageStats[k].language = r[3]
            IN  [count |-> res.languageStats[k].count,
                 percentage |-> Whole(res.languageStats[k].percentage)]]
      @@ (AchievementsRef(i) :> res.achievements)
      @@ (KeywordsRef(i) :> res.topKeywords)

\* merged.languageStats.set(lang, stats): the Map entry is the input's own
\* object.
SharedEntryRef(i, language) == EntryRef(i, language)

\* merged.languageStats.set(lang, { count: stats.count, percentage: 0 }):
\* the Map entry is a new object.
NewEntryRef(i, language) == EntryRef(0, language)

\* The language loop for the entry of language lang of input i: st.map is
\* merged.languageStats, a list of [language, ref] in insertion order.
LanguageStep(st, i, lang) ==
    LET found == SelectSeq(st.map, LAMBDA m : m.language = lang)
        stats == st.heap[EntryRef(i, lang)]
    IN  IF found # <<>>
        THEN [st EXCEPT !.heap[found[1].ref].count = @ + stats.count]
        ELSE [map |-> Append(st.map, [language |-> lang, ref |-> NewEntryRef(i, lang)]),
              heap |-> st.heap @@ (NewEntryRef(i, lang) :>
                                     [count |-> stats.count, percentage |-> Whole(0)])]

RECURSIVE LanguageLoop(_, _, _, _)
LanguageLoop(st, rs, i, k) ==
    IF i > Len(rs) THEN st
    ELSE IF k > Len(rs[i].result.languageStats) THEN LanguageLoop(st, rs, i + 1, 1)
    ELSE LanguageLoop(LanguageStep(st, i, rs[i].result.languageStats[k].language),
                      rs, i, k + 1)

\* stats.percentage = totalLanguageCount > 0 ? (count / total) * 100 : 0 for
\* every entry of merged.languageStats.
RECURSIVE PercentageLoop(_, _, _, _)
PercentageLoop(h, map, k, total) ==
    IF k > Len(map) THEN h
    ELSE PercentageLoop(
             [h EXCEPT ![map[k].ref].percentage = Percentage(h[map[k].ref].count, total)],
             map, k + 1, total)

\* The heap after mergeAnalysisResults, st being the map and heap the
\* language loop left: the percentages, merged.achievements (the new array calculateAchievements
\* returned, to which addProjectMilestones pushes) and merged.topKeywords
\* (the first input's array).
MergeHeap(st, unlocked, milestones) ==
    LET total == SumTo([k \in 1..Len(st.map) |-> st.heap[st.map[k].ref].count],
                       Len(st.map))
        done == PercentageLoop(st.heap, st.map, 1, total)
    IN  [r \in DOMAIN done \cup {AchievementsRef(0)} |->
            IF r = AchievementsRef(0) THEN unlocked \o milestones ELSE done[r]]

\* out is what mergeAnalysisResults(rs) returns for a non-empty list and
\* heapOut the heap it leaves: the merged object is built, its achievements
\* and persona are recomputed from it with no commits, the project
\* milestones are added.
MergeInto(out, heapOut, h, rs, year) ==
    \E base \in {MergedBase(rs)}, projectDetails \in {ProjectDetails(rs)} :
       \E withRules \in {WithAchievements(base, <<>>, year)} :
          /\ out = MergeReturn(addProjectMilestones(withRules, projectDetails, year),
                               projectDetails)
          /\ \E st \in {LanguageLoop([map |-> <<>>, heap |-> h], rs, 1, 1)} :
                heapOut = MergeHeap(st, withRules.achievements,
                                    ProjectMilestones(
                                        Len(projectDetails),
                                        Len(SelectSeq(projectDetails,
                                                      LAMBDA q : q.active))))

(***************************************************************************)
(* Several repositories are analysed one after the other and their results *)
(* are merged.                                                             *)
(***************************************************************************)
\* The logs of the repositories, each a list of records of LogRecords: an
\* empty repository, small ones, one of ten commits and one of five.
RepoLogs ==
    << <<>>, <<1>>, <<2, 4>>, <<3, 1, 4>>,
       <<4, 4, 4, 4, 4, 4, 4, 4, 4, 4>>, <<2, 2, 2, 2, 2>>, <<3>>,
       <<2, 2, 2, 2, 2, 2, 2, 2, 2, 2, 2, 2, 2, 2, 2>> >>

RECURSIVE LogLines(_)
LogLines(recs) ==
    IF recs = <<>> THEN <<>>
    ELSE LogLines(SubSeq(recs, 1, Len(recs) - 1))
         \o RecordLines(recs[Len(recs)], Len(recs) - 1)

\* analyze() from the commits getCommits() returned, run on the day now
\* (when it does not raise).
Analyze(parsed, now) ==
    LET sorted == IF Len(parsed) = 0 THEN parsed
                  ELSE CHOOSE s \in SortedByDate(parsed) : TRUE
    IN  WithAchievements(ResultObject(Statistics(parsed, sorted, now), sorted),
                         sorted, YearOf(now))

\* analyze() on a repository whose log holds the records recs.
AnalyzeLog(recs, now) ==
    Analyze(parseRawLog(IF recs = <<>> THEN << <<>> >> ELSE LogLines(recs)), now)

\* getCommits() on each repository.
RepoCommits ==
    [k \in 1..Len(RepoLogs) |->
        parseRawLog(IF RepoLogs[k] = <<>> THEN << <<>> >> ELSE LogLines(RepoLogs[k]))]

RepoResults == [k \in 1..Len(RepoLogs), now \in Todays |-> AnalyzeLog(RepoLogs[k], now)]

RepoNames == <<"alpha", "beta", "gamma", "delta", "epsilon">>

MergeInit ==
    /\ pc = "repos" /\ results = <<>> /\ merged = NULL /\ result = NULL
    /\ today \in Todays
    /\ lines = <<>> /\ groups = <<>> /\ ParserIdle /\ CliIdle /\ heap = EmptyHeap /\ parsedBefore = NULL

\* One more repository is analysed and its result collected.
AnalyzeRepository ==
    /\ pc = "repos"
    /\ Len(results) < MaxRepos
    /\ UNCHANGED <<pc, lines, lineIdx, state, currentCommit, commits, groups, today,
                   result, merged>>
    /\ UNCHANGED <<cliVars, parsedBefore>>
    /\ \E k \in 1..Len(RepoLogs) :
          /\ results' = Append(results,
                            [result |-> RepoResults[k, today],
                             projectPath |-> "/work/" \o Pick(RepoNames, Len(results)),
                             projectName |-> Pick(RepoNames, Len(results))])
          /\ heap' = AllocInput(heap, Len(results) + 1, RepoResults[k, today])

\* mergeAnalysisResults(results) on a non-empty list: the merged object is
\* built, its achievements and persona are recomputed from it with no
\* commits, the project milestones are added and the result is returned.
Merge ==
    /\ pc = "repos"
    /\ Len(results) > 0
    /\ MergeInto(merged', heap', heap, results, YearOf(today))
    /\ pc' = "merged"
    /\ UNCHANGED <<lines, lineIdx, state, currentCommit, commits, groups, today,
                   result, results>>
    /\ UNCHANGED <<cliVars, parsedBefore>>

\* mergeAnalysisResults([]) throws.
MergeThrows ==
    /\ pc = "repos"
    /\ Len(results) = 0
    /\ merged' = NULL
    /\ pc' = "threw"
    /\ UNCHANGED <<lines, lineIdx, state, currentCommit, commits, groups, today,
                   result, results>>
    /\ UNCHANGED <<cliVars, heap, parsedBefore>>

MergeNext == AnalyzeRepository \/ Merge \/ MergeThrows

SpecMerge == MergeInit /\ [][MergeNext]_vars

(***************************************************************************)
(* analyze() on a long log of two kinds of record: "Refactor parser"        *)
(* commits touching README.md, then "Fix typo" commits made after midnight. *)
(***************************************************************************)
LongLogKinds == {2, 4}

\* The kind of the record written last, 0 in an empty log.
LastKind ==
    IF groups = <<>> THEN 0
    ELSE CHOOSE r \in LongLogKinds :
             lines[groups[Len(groups)] + 3] = LogRecords[r].subject

\* git log writes one more record, the kinds in ascending order.
LongLogRecord ==
    /\ pc = "log"
    /\ Len(groups) < MaxLog
    /\ \E r \in LongLogKinds :
          /\ r >= LastKind
          /\ lines' = lines \o RecordLines(r, Len(groups))
    /\ groups' = Append(groups, Len(lines))
    /\ UNCHANGED <<pc, lineIdx, state, currentCommit, commits, today,
                   result, results, merged>>
    /\ UNCHANGED <<cliVars, heap, parsedBefore>>

LongLogNext ==
    \/ LongLogRecord \/ GetCommits \/ AnalyzeStats \/ BuildResult \/ FinishAnalysis

\* The long log is analysed on 4 March 2024.
LongLogInit == AnalyzeInit /\ today = DaysFromCivil(2024, 3, 4)

SpecLongLog == LongLogInit /\ [][LongLogNext]_vars

(***************************************************************************)
(* generateReport (src/cli/index.ts): the repositories are analysed in a   *)
(* loop, each in a try block, and one report is generated from the single  *)
(* result or from the merged results.                                      *)
(***************************************************************************)
\* The repositories that may be met: one whose git log invocation fails, an
\* empty one, two with commits, and one whose only commit has an unreadable
\* timestamp.
Repositories ==
    << [fetch |-> "fails", log |-> <<>>],
       [fetch |-> "ok", log |-> <<>>],
       [fetch |-> "ok", log |-> <<1>>],
       [fetch |-> "ok", log |-> <<2, 4>>],
       [fetch |-> "ok", log |-> <<5>>] >>

\* getCommits(): the parsed log, or [] when this.git.raw rejects.
getCommits(repo) ==
    IF repo.fetch = "fails" THEN <<>>
    ELSE parseRawLog(IF repo.log = <<>> THEN << <<>> >> ELSE LogLines(repo.log))

\* What await analyzer.analyze() does for each kind of repository on each
\* day: it raises, or returns a result.
AnalyzerRuns ==
    [k \in 1..Len(Repositories), now \in Todays |->
        IF PunchCardThrows(getCommits(Repositories[k]))
        THEN [raises |-> TRUE, result |-> NULL]
        ELSE [raises |-> FALSE, result |-> Analyze(getCommits(Repositories[k]), now)]]

ReportInit ==
    /\ pc = "scan" /\ repos = <<>> /\ repoIdx = 0 /\ report = NULL /\ heap = EmptyHeap /\ parsedBefore = NULL
    /\ results = <<>> /\ merged = NULL /\ result = NULL
    /\ today \in Todays
    /\ lines = <<>> /\ groups = <<>> /\ ParserIdle

analyzerVars ==
    <<lines, lineIdx, state, currentCommit, commits, groups, today, result, parsedBefore>>

\* One more repository is found under the given path.
ScanRepository ==
    /\ pc = "scan"
    /\ Len(repos) < MaxRepos
    /\ \E k \in 1..Len(Repositories) :
          repos' = Append(repos, [path |-> [dir |-> "/work",
                                            base |-> Pick(RepoNames, Len(repos))],
                                  kind |-> k])
    /\ UNCHANGED <<pc, repoIdx, report, results, merged>>
    /\ UNCHANGED <<analyzerVars, heap>>

\* No repository was found: generateReport returns.
NoRepository ==
    /\ pc = "scan"
    /\ Len(repos) = 0
    /\ pc' = "finished"
    /\ UNCHANGED <<repos, repoIdx, report, results, merged>>
    /\ UNCHANGED <<analyzerVars, heap>>

\* The loop over repositoriesToAnalyze is entered.
EnterLoop ==
    /\ pc = "scan"
    /\ Len(repos) > 0
    /\ pc' = "loop"
    /\ UNCHANGED <<repos, repoIdx, report, results, merged>>
    /\ UNCHANGED <<analyzerVars, heap>>

CurrentRun == AnalyzerRuns[repos[repoIdx + 1].kind, today]

\* path.basename(currentRepoPath), a path being [dir, base].
BaseName(p) == p.base

\* The try block succeeds: the result is pushed to analysisResults.
AnalyzeOne ==
    /\ pc = "loop"
    /\ repoIdx < Len(repos)
    /\ ~CurrentRun.raises
    /\ results' = Append(results, [result |-> CurrentRun.result,
                                   projectPath |-> repos[repoIdx + 1].path,
                                   projectName |-> BaseName(repos[repoIdx + 1].path)])
    /\ repoIdx' = repoIdx + 1
    /\ UNCHANGED <<pc, repos, report, merged>>
    /\ UNCHANGED analyzerVars
    /\ heap' = AllocInput(heap, Len(results) + 1, CurrentRun.result)

\* analyze() raised and there are several repositories: continue.
SkipRepository ==
    /\ pc = "loop"
    /\ repoIdx < Len(repos)
    /\ CurrentRun.raises
    /\ Len(repos) > 1
    /\ repoIdx' = repoIdx + 1
    /\ UNCHANGED <<pc, repos, report, results, merged>>
    /\ UNCHANGED <<analyzerVars, heap>>

\* analyze() raised and there is one repository: throw error.
RethrowSingle ==
    /\ pc = "loop"
    /\ repoIdx < Len(repos)
    /\ CurrentRun.raises
    /\ Len(repos) = 1
    /\ pc' = "raised"
    /\ UNCHANGED <<repos, repoIdx, report, results, merged>>
    /\ UNCHANGED <<analyzerVars, heap>>

\* Several repositories: the results are merged and the report generated
\* from the merged result.
MergedReport ==
    /\ pc = "loop"
    /\ repoIdx = Len(repos)
    /\ Len(repos) > 1
    /\ Len(results) > 0
    /\ MergeInto(merged', heap', heap, results, YearOf(today))
    /\ report' = merged'
    /\ pc' = "finished"
    /\ UNCHANGED <<repos, repoIdx, results>>
    /\ UNCHANGED analyzerVars

\* Several repositories and no result: mergeAnalysisResults throws, the
\* error is caught and logged.
MergeFails ==
    /\ pc = "loop"
    /\ repoIdx = Len(repos)
    /\ Len(repos) > 1
    /\ Len(results) = 0
    /\ pc' = "finished"
    /\ UNCHANGED <<repos, repoIdx, report, results, merged>>
    /\ UNCHANGED <<analyzerVars, heap>>

\* One repository: the report is generated from analysisResults[0].
SingleReport ==
    /\ pc = "loop"
    /\ repoIdx = Len(repos)
    /\ Len(repos) = 1
    /\ report' = results[1].result
    /\ pc' = "finished"
    /\ UNCHANGED <<repos, repoIdx, results, merged>>
    /\ UNCHANGED <<analyzerVars, heap>>

ReportNext ==
    \/ ScanRepository \/ NoRepository \/ EnterLoop
    \/ AnalyzeOne \/ SkipRepository \/ RethrowSingle
    \/ MergedReport \/ MergeFails \/ SingleReport

SpecReport == ReportInit /\ [][ReportNext]_vars

(***************************************************************************)
(* The same analyzer is run twice (two invocations of the tool), on any    *)
(* two repositories, while the clock moves over the turn of a year.        *)
(***************************************************************************)
\* 30 and 31 December 2024 and 1 January 2025.
RunDays ==
    {DaysFromCivil(2024, 12, 30), DaysFromCivil(2024, 12, 31), DaysFromCivil(2025, 1, 1)}

\* analyze() on each repository on each of these days.
RunResults == [k \in 1..Len(RepoLogs), now \in RunDays |-> AnalyzeLog(RepoLogs[k], now)]

TwoRunsInit ==
    /\ pc = "runs" /\ results = <<>> /\ merged = NULL /\ result = NULL
    /\ today \in RunDays
    /\ lines = <<>> /\ groups = <<>> /\ ParserIdle /\ CliIdle /\ heap = EmptyHeap /\ parsedBefore = NULL

\* analyze() runs on some repository and its result is kept.
RunAnalyze ==
    /\ pc = "runs"
    /\ Len(results) < 2
    /\ \E k \in 1..Len(RepoLogs) :
          results' = Append(results,
                            [result |-> RunResults[k, today],
                             projectPath |-> "/work/" \o Pick(RepoNames, k - 1),
                             projectName |-> Pick(RepoNames, k - 1)])
    /\ UNCHANGED <<pc, lines, lineIdx, state, currentCommit, commits, groups, today,
                   result, merged, heap>>
    /\ UNCHANGED <<cliVars, parsedBefore>>

\* Midnight passes between two runs.
MidnightPasses ==
    /\ pc = "runs"
    /\ today + 1 \in RunDays
    /\ today' = today + 1
    /\ UNCHANGED <<pc, lines, lineIdx, state, currentCommit, commits, groups,
                   result, results, merged, heap>>
    /\ UNCHANGED <<cliVars, parsedBefore>>

TwoRunsNext == RunAnalyze \/ MidnightPasses

SpecTwoRuns == TwoRunsInit /\ [][TwoRunsNext]_vars

(***************************************************************************)
(* One commit is classified: stat lines naming files are accumulated into  *)
(* the pending record, which is then finalized.                            *)
(***************************************************************************)
FilePaths ==
    << <<"m", "a", "i", "n", ".", "g", "o">>,
       <<"c", "m", "d", "/", "R", "U", "N", ".", "G", "O">>,
       <<"R", "E", "A", "D", "M", "E", ".", "m", "d">>,
       <<"l", "o", "g", "o", ".", "p", "n", "g">>,
       <<"M", "a", "k", "e", "f", "i", "l", "e">>,
       <<"d", "o", "c", "s", ".", "d", "/", "A", ".", "M", "d">> >>

ClassifyInit ==
    /\ pc = "files"
    /\ lines = HeaderOf(1) /\ groups = <<0>>
    /\ lineIdx = 5 /\ state = "stats" /\ commits = <<>>
    /\ currentCommit = ReadMeta(HeaderOf(1), 0)
    /\ AnalysisIdle /\ CliIdle /\ heap = EmptyHeap /\ parsedBefore = NULL

\* A stat line naming one more changed file is accumulated.
TouchFile ==
    /\ pc = "files"
    /\ Len(currentCommit.files) < MaxFiles
    /\ \E f \in 1..Len(FilePaths) :
          /\ lines' = Append(lines, <<"1", TAB, "1", TAB>> \o FilePaths[f])
          /\ currentCommit' = AccumulateStat(currentCommit, lines'[Len(lines')])
    /\ lineIdx' = lineIdx + 1
    /\ UNCHANGED <<pc, state, commits, groups, today, result, results, merged>>
    /\ UNCHANGED <<cliVars, heap, parsedBefore>>

\* End of input: finalizeCommit() classifies the pending record.
Classify ==
    /\ pc = "files"
    /\ commits' = finalizeCommit(currentCommit, commits)
    /\ pc' = "classified"
    /\ UNCHANGED <<lines, lineIdx, state, currentCommit, groups, today,
                   result, results, merged>>
    /\ UNCHANGED <<cliVars, heap, parsedBefore>>

ClassifyNext == TouchFile \/ Classify

SpecClassify == ClassifyInit /\ [][ClassifyNext]_vars

(***************************************************************************)
(* Logs whose headers carry unusual fields: a subject, author name or      *)
(* email that is blank or shaped like a record id.                         *)
(***************************************************************************)
\* What an unusual header field holds.
OddFields == << <<>>, <<" ">>, HashLine("e") >>

\* Header k with its field f (3 subject, 4 author name, 5 email) replaced.
OddHeader(k, f, v) == [HeaderOf(k) EXCEPT ![f] = v]

\* The five header lines of the next record, as written or with one unusual
\* field.
WriteOddHeader ==
    /\ pc = "fetch"
    /\ Len(groups) < MaxRecords
    /\ \E f \in 3..5, v \in 0..Len(OddFields) :
          lines' = lines \o (IF v = 0 THEN HeaderOf(Len(groups) + 1)
                             ELSE OddHeader(Len(groups) + 1, f, OddFields[v]))
    /\ groups' = Append(groups, Len(lines))
    /\ UNCHANGED <<pc, lineIdx, state, currentCommit, commits, today,
                   result, results, merged>>
    /\ UNCHANGED <<cliVars, heap, parsedBefore>>

HeadersNext ==
    \/ WriteBlank \/ WriteOddHeader \/ WriteStat \/ FetchDone
    \/ MetaStep \/ BoundaryStep \/ StatsStep \/ ParseReturn

SpecHeaders == FetchInit /\ [][HeadersNext]_vars

(***************************************************************************)
(* A run over many small repositories: those without commits are listed    *)
(* first, then repositories with one commit; the results are merged.       *)
(***************************************************************************)
ProjectsInit ==
    /\ pc = "repos" /\ results = <<>> /\ merged = NULL /\ result = NULL
    /\ today = DaysFromCivil(2024, 3, 2)
    /\ lines = <<>> /\ groups = <<>> /\ ParserIdle /\ CliIdle
    /\ heap = EmptyHeap /\ parsedBefore = NULL

\* One more repository is analysed and its result collected.
CollectProject ==
    /\ pc = "repos"
    /\ Len(results) < MaxProjects
    /\ \E k \in {1, 2} :
          /\ k = 1 => \A i \in 1..Len(results) : results[i].result.totalCommits = 0
          /\ results' = Append(results,
                            [result |-> RepoResults[k, today],
                             projectPath |-> "/work/" \o Pick(RepoNames, Len(results)),
                             projectName |-> Pick(RepoNames, Len(results))])
          /\ heap' = AllocInput(heap, Len(results) + 1, RepoResults[k, today])
    /\ UNCHANGED <<pc, lines, lineIdx, state, currentCommit, commits, groups, today,
                   result, merged>>
    /\ UNCHANGED <<cliVars, parsedBefore>>

ProjectsNext == CollectProject \/ Merge \/ MergeThrows

SpecProjects == ProjectsInit /\ [][ProjectsNext]_vars

(***************************************************************************)
(* Properties of parseRawLog.                                              *)
(***************************************************************************)
\* The line the loop is at, and the line consumed last.
CurrentLine == lines[lineIdx + 1]

\* C1: parseRawLog returns exactly as many commits as the text holds complete
\* five-line header groups, whatever blank lines precede, separate or follow
\* them; a trailing header of fewer than five lines yields no commit.
C1_CountEqualsHeaderGroups == pc = "parsed" => Len(commits) = Len(groups)

\* C2: in the Stats state a line whose tab-separated field count is not 3
\* (and that is not shaped like a record id) is skipped: the pending record and
\* the commits emitted so far are unchanged and the loop goes on at the next line.
NotAStatLine(line) == Len(Split(line, TAB)) # 3 /\ ~LooksLikeHash(line)

C2_MalformedStatLineSkipped ==
    [][(InLoop /\ state = "stats" /\ NotAStatLine(CurrentLine))
          => /\ currentCommit' = currentCommit
             /\ commits' = commits
             /\ lineIdx' = lineIdx + 1
             /\ state' = "stats"
             /\ pc' = "parse"]_vars

\* A malformed line was just skipped in the Stats state of a record that had
\* already accumulated a stat line.
C2_Witness ==
    /\ pc = "parse" /\ state = "stats" /\ lineIdx >= 1
    /\ \E j \in 1..Len(groups) :
          /\ currentCommit.hash = lines[groups[j] + 1]
          /\ lineIdx - 1 >= groups[j] + 5
    /\ NotAStatLine(lines[lineIdx]) /\ ~TrimIsEmpty(lines[lineIdx])
    /\ currentCommit.files # <<>>


(***************************************************************************)
(* Properties of analyze().                                                *)
(***************************************************************************)
HasResult == pc \in {"built", "done"}

HasStreaks == pc \in {"stats", "built", "done"}

\* C3: totalCommits is the number of commits, totalInsertions and
\* totalDeletions are the sums of the commits' insertions and deletions, and
\* netLines is totalInsertions - totalDeletions.
C3_TotalsAreExactSums ==
    HasResult =>
        /\ result.totalCommits = Len(commits)
        /\ result.totalInsertions
             = SumTo([i \in 1..Len(commits) |-> commits[i].insertions], Len(commits))
        /\ result.totalDeletions
             = SumTo([i \in 1..Len(commits) |-> commits[i].deletions], Len(commits))
        /\ result.netLines = result.totalInsertions - result.totalDeletions

\* Two commits of the same day with one stat line 3 TAB 1 TAB main.go each,
\* and a third commit deleting more than it inserts.
C3_Witness ==
    /\ pc = "done" /\ Len(commits) = 3
    /\ result.totalInsertions = 7 /\ result.totalDeletions = 7
    /\ result.netLines = 0

\* C4: the punch card is a 7 x 24 matrix, each commit is counted in the one
\* cell [day of week][hour] of its local timestamp, and the 168 cells sum to
\* totalCommits.
C4_PunchCardSumsToTotal ==
    HasResult =>
        /\ DOMAIN result.punchCard = 0..6
        /\ \A d \in 0..6 : DOMAIN result.punchCard[d] = 0..23
        /\ \A d \in 0..6 : \A h \in 0..23 :
              result.punchCard[d][h]
                = Cardinality({i \in 1..Len(commits) :
                                 /\ MomentDay(commits[i].date) = d
                                 /\ MomentHour(commits[i].date) = h})
        /\ SumTo([d \in 1..7 |->
                     SumTo([h \in 1..24 |-> result.punchCard[d - 1][h - 1]], 24)], 7)
             = result.totalCommits

\* Two commits share the cell Friday 23h and a third is in another cell.
C4_Witness ==
    /\ pc = "done" /\ result.totalCommits = 3
    /\ result.punchCard[5][23] = 2
    /\ result.punchCard[0][0] = 1

\* C5: longestStreak >= currentStreak >= 0, and the three streak figures are
\* 0 when there is no commit.
C5_StreakOrder ==
    HasStreaks =>
        /\ result.streakStats.longestStreak >= result.streakStats.currentStreak
        /\ result.streakStats.currentStreak >= 0
        /\ Len(commits) = 0 =>
              /\ result.streakStats.longestStreak = 0
              /\ result.streakStats.currentStreak = 0
              /\ result.streakStats.totalActiveDays = 0

\* A run of two days ending today, after a gap and an earlier active day.
C5_Witness ==
    /\ pc = "done"
    /\ result.streakStats.currentStreak = 2
    /\ result.streakStats.longestStreak = 2
    /\ result.streakStats.totalActiveDays = 3

\* The local calendar days on which a commit was made.
CommitDays == {LocalDay(commits[i].date) : i \in 1..Len(commits)}

\* Length of the longest run of consecutive days in the set S of day numbers.
LongestRun(S) ==
    IF S = {} THEN 0
    ELSE CHOOSE n \in 1..Cardinality(S) :
            /\ \E d \in S : \A k \in 0..(n - 1) : d + k \in S
            /\ \A m \in (n + 1)..Cardinality(S) :
                  ~\E d \in S : \A k \in 0..(m - 1) : d + k \in S

AllDatesValid == \A i \in 1..Len(commits) : commits[i].date.valid

\* C6: for commits whose timestamps are dates, longestStreak is the length
\* of the longest run of consecutive calendar days among the commit dates and
\* totalActiveDays is the number of distinct commit dates.
C6_LongestStreakIsLongestRun ==
    (HasStreaks /\ AllDatesValid) =>
        /\ result.streakStats.longestStreak = LongestRun(CommitDays)
        /\ result.streakStats.totalActiveDays = Cardinality(CommitDays)

\* Three commits on 29 February, 1 March and 2 March: a run of three days
\* across the end of the month.
C6_Witness ==
    /\ pc = "done" /\ Len(commits) = 3
    /\ CommitDays = {DaysFromCivil(2024, 2, 29) + k : k \in 0..2}
    /\ result.streakStats.longestStreak = 3

\* Several commits on a single day.
C6_WitnessSingleDay ==
    /\ pc = "done" /\ Len(commits) = 3
    /\ Cardinality(CommitDays) = 1
    /\ result.streakStats.longestStreak = 1
    /\ result.streakStats.totalActiveDays = 1

\* C7: with no commit analyze() does not raise and returns the baseline: all
\* totals 0, no language, empty hour, day and month maps, the three streak
\* figures 0, empty trends, an all-zero 7 x 24 punch card, no keyword and no
\* achievement.
C7_EmptyBaseline ==
    Len(commits) = 0 =>
        /\ pc # "threw"
        /\ pc = "stats" => ~PunchCardThrows(commits)
        /\ pc = "done" =>
              /\ result.totalCommits = 0 /\ result.totalInsertions = 0
              /\ result.totalDeletions = 0 /\ result.netLines = 0
              /\ result.languageStats = <<>>
              /\ DOMAIN result.timeStats.byHour = {}
              /\ DOMAIN result.timeStats.byDayOfWeek = {}
              /\ DOMAIN result.timeStats.byMonth = {}
              /\ result.streakStats
                   = [longestStreak |-> 0, currentStreak |-> 0, totalActiveDays |-> 0]
              /\ result.commitTrends = [monthly |-> <<>>, daily |-> <<>>]
              /\ DOMAIN result.punchCard = 0..6
              /\ \A d \in 0..6 : \A h \in 0..23 : result.punchCard[d][h] = 0
              /\ result.topKeywords = <<>>
              /\ result.achievements = <<>>

\* analyze() has returned for an empty log.
C7_Witness == pc = "done" /\ Len(commits) = 0 /\ lines = <<>>


(***************************************************************************)
(* Properties of mergeAnalysisResults.                                     *)
(***************************************************************************)
\* A frequency Map read at a key, 0 when the key is absent.
Get(map, k) == IF k \in DOMAIN map THEN map[k] ELSE 0

Inputs == 1..Len(results)

\* The sum over the inputs of the number f[i].
SumInputs(f) == SumTo(f, Len(results))

CardSum(card) ==
    SumTo([d \in 1..7 |-> SumTo([h \in 1..24 |-> card[d - 1][h - 1]], 24)], 7)

\* C8: a merged result's totalCommits, totalInsertions, totalDeletions and
\* netLines are the sums over the inputs, so netLines = insertions -
\* deletions; every hour, day-of-week and month entry and every punch-card
\* cell is the sum of the inputs' entries; and the merged punch card sums to
\* the merged totalCommits when every input's does.
C8_MergeIsAdditive ==
    pc = "merged" =>
        /\ merged.totalCommits = SumInputs([i \in Inputs |-> results[i].result.totalCommits])
        /\ merged.totalInsertions
             = SumInputs([i \in Inputs |-> results[i].result.totalInsertions])
        /\ merged.totalDeletions
             = SumInputs([i \in Inputs |-> results[i].result.totalDeletions])
        /\ merged.netLines = SumInputs([i \in Inputs |-> results[i].result.netLines])
        /\ merged.netLines = merged.totalInsertions - merged.totalDeletions
        /\ \A which \in {"byHour", "byDayOfWeek", "byMonth"} :
              /\ DOMAIN merged.timeStats[which]
                   = UNION {DOMAIN results[i].result.timeStats[which] : i \in Inputs}
              /\ \A k \in UNION {DOMAIN results[i].result.timeStats[which] : i \in Inputs} :
                    Get(merged.timeStats[which], k)
                      = SumInputs([i \in Inputs |->
                                     Get(results[i].result.timeStats[which], k)])
        /\ \A d \in 0..6, h \in 0..23 :
              merged.punchCard[d][h]
                = SumInputs([i \in Inputs |-> results[i].result.punchCard[d][h]])
        /\ ((\A i \in Inputs :
                CardSum(results[i].result.punchCard) = results[i].result.totalCommits)
            => CardSum(merged.punchCard) = merged.totalCommits)

\* Inputs with commit totals 10, 0 and 5 have been merged to 15, with
\* entries of the maps and of the punch card added up from several inputs.
C8_Witness ==
    /\ pc = "merged"
    /\ Len(results) = 3
    /\ results[1].result.totalCommits = 10
    /\ results[2].result.totalCommits = 0
    /\ results[3].result.totalCommits = 5
    /\ merged.totalCommits = 15
    /\ merged.netLines = 0 - 15
    /\ merged.timeStats.byDayOfWeek[0] = 10
    /\ merged.timeStats.byDayOfWeek[6] = 5
    /\ merged.punchCard[6][17] = 5

\* Two non-empty inputs with a common punch-card cell have been merged.
C8_WitnessSharedCell ==
    /\ pc = "merged"
    /\ \E i, j \in Inputs :
          /\ i < j
          /\ results[i].result.punchCard[5][23] > 0
          /\ results[j].result.punchCard[5][23] > 0
          /\ merged.punchCard[5][23] > results[i].result.punchCard[5][23]
          /\ merged.netLines # results[j].result.netLines

ActiveCount == Len(SelectSeq(merged.projectDetails, LAMBDA q : q.active))

HasAchievement(res, id) == \E i \in 1..Len(res.achievements) : res.achievements[i].id = id

\* C9: in a merged result the number of projects listed as active is the
\* number of inputs with totalCommits > 0, a project is listed as inactive
\* exactly when it has no commits, and loyal-developer is among the
\* achievements iff there is exactly one input and it has commits.
C9_ActiveProjectsAndLoyal ==
    pc = "merged" =>
        /\ ActiveCount = Cardinality({i \in Inputs : results[i].result.totalCommits > 0})
        /\ Len(merged.projectDetails) = Len(results)
        /\ \A i \in Inputs :
              \E j \in 1..Len(merged.projectDetails) :
                 /\ merged.projectDetails[j].path = results[i].projectPath
                 /\ merged.projectDetails[j].commits = results[i].result.totalCommits
                 /\ merged.projectDetails[j].active
                      <=> results[i].result.totalCommits > 0
        /\ HasAchievement(merged, "loyal-developer")
             <=> (Len(results) = 1 /\ results[1].result.totalCommits > 0)

\* Inputs with commit totals 10, 0 and 5: two active projects, one inactive,
\* no loyal-developer.
C9_Witness ==
    /\ pc = "merged"
    /\ Len(results) = 3
    /\ results[1].result.totalCommits = 10
    /\ results[2].result.totalCommits = 0
    /\ results[3].result.totalCommits = 5
    /\ ActiveCount = 2
    /\ ~HasAchievement(merged, "loyal-developer")

\* A single active input: loyal-developer is appended.
C9_WitnessLoyal ==
    /\ pc = "merged"
    /\ Len(results) = 1
    /\ results[1].result.totalCommits > 0
    /\ HasAchievement(merged, "loyal-developer")

\* A single input with no commits: no loyal-developer.
C9_WitnessSingleInactive ==
    /\ pc = "merged"
    /\ Len(results) = 1
    /\ results[1].result.totalCommits = 0
    /\ ActiveCount = 0
    /\ ~HasAchievement(merged, "loyal-developer")

(***************************************************************************)
(* Properties of calculateAchievements.                                    *)
(***************************************************************************)
\* The number of commits of the run that satisfy Test.
Count(holds) == Cardinality({i \in 1..Len(commits) : holds[i]})

OfCommits == 1..Len(commits)

FixWorded(c) ==
    \E k \in 1..(Len(c.message) - 2) :
       \/ ToLowerCase(SubSeq(c.message, k, k + 2)) = <<"f", "i", "x">>
       \/ ToLowerCase(SubSeq(c.message, k, k + 2)) = <<"b", "u", "g">>

RefactorWorded(c) ==
    \E k \in 1..(Len(c.message) - 7) :
       ToLowerCase(SubSeq(c.message, k, k + 7)) = <<"r", "e", "f", "a", "c", "t", "o", "r">>

TouchesMarkdown(c) ==
    \E i \in 1..Len(c.files) :
       /\ Len(c.files[i]) >= 3
       /\ SubSeq(c.files[i], Len(c.files[i]) - 2, Len(c.files[i])) = <<".", "m", "d">>

HourIn(c, lo, hi) == c.date.valid /\ MomentHour(c.date) \in lo..hi

OnWeekend(c) == c.date.valid /\ MomentDay(c.date) \in {0, 6}

\* The most commits made on one calendar day.
BusiestDay ==
    LET day == [i \in 1..Len(commits) |-> DayKey(commits[i])]
        onDay(i) == Cardinality({j \in 1..Len(commits) : day[j] = day[i]})
    IN  IF commits = <<>> THEN 0
        ELSE CHOOSE n \in {onDay(i) : i \in 1..Len(commits)} :
                 \A i \in 1..Len(commits) : onDay(i) <= n

RuleIds ==
    {"first-commit", "100-commits", "500-commits", "1000-commits",
     "night-owl", "weekend-warrior", "consistency-king", "polyglot",
     "early-bird", "midnight-coder", "code-rocket", "bug-terminator",
     "refactor-artist", "doc-master", "quality-guardian", "code-giant",
     "minimalist", "active-developer"}

\* The threshold predicate of the rule id of the catalogue, for the run that
\* produced result from commits.
RuleHolds(id) ==
    CASE id = "first-commit" -> result.totalCommits >= 1
      [] id = "100-commits" -> result.totalCommits >= 100
      [] id = "500-commits" -> result.totalCommits >= 500
      [] id = "1000-commits" -> result.totalCommits >= 1000
      [] id = "night-owl" -> Count([i \in OfCommits |-> HourIn(commits[i], 0, 4)]) >= 20
      [] id = "weekend-warrior" -> Count([i \in OfCommits |-> OnWeekend(commits[i])]) >= 50
      [] id = "consistency-king" -> result.streakStats.longestStreak >= 7
      [] id = "polyglot" -> Len(result.languageStats) >= 5
      [] id = "early-bird" -> Count([i \in OfCommits |-> HourIn(commits[i], 5, 8)]) >= 10
      [] id = "midnight-coder" -> Count([i \in OfCommits |-> HourIn(commits[i], 0, 1)]) >= 10
      [] id = "code-rocket" -> BusiestDay >= 10
      [] id = "bug-terminator" -> Count([i \in OfCommits |-> FixWorded(commits[i])]) >= 30
      [] id = "refactor-artist" -> Count([i \in OfCommits |-> RefactorWorded(commits[i])]) >= 15
      [] id = "doc-master" -> Count([i \in OfCommits |-> TouchesMarkdown(commits[i])]) >= 20
      [] id = "quality-guardian" ->
           /\ result.totalCommits > 0
           /\ result.totalInsertions + result.totalDeletions > 0
           /\ result.totalInsertions + result.totalDeletions
                < 50 * result.totalCommits
      [] id = "code-giant" -> result.netLines >= 10000
      [] id = "minimalist" ->
           IF result.totalInsertions = 0 THEN result.totalDeletions >= 1
           ELSE IF result.totalInsertions > 0
           THEN 2 * result.totalDeletions >= result.totalInsertions
           ELSE 2 * result.totalDeletions <= result.totalInsertions
      [] id = "active-developer" -> result.streakStats.totalActiveDays >= 100

\* C10: the achievements of a per-repository result are exactly the rules of
\* the catalogue whose threshold predicate holds for the run: every listed
\* achievement is a rule of the catalogue with unlocked = true, listed once,
\* and a rule is listed iff its predicate holds; bug-terminator is listed
\* iff at least 30 commits have a subject worded as a bug fix.
C10_AchievementsAreTheRulesThatHold ==
    pc = "done" =>
        /\ \A i \in 1..Len(result.achievements) :
              /\ result.achievements[i].unlocked = TRUE
              /\ result.achievements[i].id \in RuleIds
              /\ \A j \in 1..Len(result.achievements) :
                    result.achievements[j].id = result.achievements[i].id => j = i
        /\ \A id \in RuleIds : HasAchievement(result, id) <=> RuleHolds(id)
        /\ HasAchievement(result, "bug-terminator") <=> Count([i \in OfCommits |-> FixWorded(commits[i])]) >= 30

\* 31 commits, every subject containing "fix": bug-terminator is listed.
C10_Witness ==
    /\ pc = "done"
    /\ Len(commits) = 31
    /\ Count([i \in OfCommits |-> FixWorded(commits[i])]) = 31
    /\ HasAchievement(result, "bug-terminator")

\* 29 commits, every subject containing "fix": bug-terminator is not listed,
\* while other rules are.
C10_WitnessBelow ==
    /\ pc = "done"
    /\ Len(commits) = 29
    /\ Count([i \in OfCommits |-> FixWorded(commits[i])]) = 29
    /\ ~HasAchievement(result, "bug-terminator")
    /\ HasAchievement(result, "night-owl")

\* Exactly 30 of 31 subjects are worded as a bug fix.
C10_WitnessAtThreshold ==
    /\ pc = "done"
    /\ Len(commits) = 31
    /\ Count([i \in OfCommits |-> FixWorded(commits[i])]) = 30
    /\ HasAchievement(result, "bug-terminator")

(***************************************************************************)
(* Properties of generateReport.                                           *)
(***************************************************************************)
FetchFails(i) == Repositories[repos[i].kind].fetch = "fails"

RunEnded == pc \in {"finished", "raised"}

\* C11: with a single repository whose log fetch fails, generateReport ends
\* by raising and no report is generated.
C11_FetchFailurePropagates ==
    (RunEnded /\ Len(repos) = 1 /\ FetchFails(1)) => (pc = "raised" /\ report = NULL)

\* The paths of the entries of a list, in order.
Paths(rs, field) == [i \in 1..Len(rs) |-> rs[i][field]]

NoRunRaises == \A i \in 1..Len(repos) : ~AnalyzerRuns[repos[i].kind, today].raises

LoopFinished == pc = "finished" \/ (pc = "loop" /\ repoIdx = Len(repos))

\* C12: with several repositories, none of which makes the analysis raise,
\* the results collected when the loop ends are the repositories whose log
\* fetch succeeded, in input order.
C12_FailedFetchSkipped ==
    (LoopFinished /\ Len(repos) > 1 /\ NoRunRaises) =>
        Paths(results, "projectPath")
          = Paths(SelectSeq(repos, LAMBDA r : Repositories[r.kind].fetch = "ok"), "path")

\* The loop visits the repositories in input order and goes on after a
\* repository is skipped: the results are those of the repositories visited
\* so far whose analysis returned, in input order.
ResultsFollowInputOrder ==
    pc = "loop" =>
        Paths(results, "projectPath")
          = Paths(SelectSeq(SubSeq(repos, 1, repoIdx),
                            LAMBDA r : ~AnalyzerRuns[r.kind, today].raises), "path")

\* A repository was skipped and a later one analysed.
SkippedThenAnalysed ==
    /\ pc = "finished" /\ Len(repos) = 3 /\ Len(results) = 2
    /\ AnalyzerRuns[repos[2].kind, today].raises
    /\ results[2].projectPath = repos[3].path

(***************************************************************************)
(* Frame of mergeAnalysisResults.                                          *)
(***************************************************************************)
\* The references of the objects of the collected results.
InputRefs == {r \in DOMAIN heap : r[2] > 0}

\* The heap and the merged value describe the same merged object.
HeapMatchesMerged ==
    pc = "merged" =>
        /\ \A k \in 1..Len(merged.languageStats) :
              heap[EntryRef(0, merged.languageStats[k].language)]
                = [count |-> merged.languageStats[k].count,
                   percentage |-> merged.languageStats[k].percentage]
        /\ heap[AchievementsRef(0)] = merged.achievements
        /\ heap[KeywordsRef(1)] = merged.topKeywords

\* C13: the step in which mergeAnalysisResults returns leaves every input
\* as it was: the list of collected results is unchanged and so is every
\* object of an input (language entries with their counts and percentages,
\* achievements and keyword arrays), while the merged object is new.
C13_MergeLeavesInputsUnchanged ==
    [][pc' = "merged" =>
          /\ results' = results
          /\ \A r \in InputRefs : r \in DOMAIN heap' /\ heap'[r] = heap[r]
          /\ \A i \in 1..Len(results) :
                /\ heap'[AchievementsRef(i)] = results[i].result.achievements
                /\ heap'[KeywordsRef(i)] = results[i].result.topKeywords
                /\ \A k \in 1..Len(results[i].result.languageStats) :
                      heap'[EntryRef(i, results[i].result.languageStats[k].language)]
                        = [count |-> results[i].result.languageStats[k].count,
                           percentage |->
                               Whole(results[i].result.languageStats[k].percentage)]
          /\ AchievementsRef(0) \notin DOMAIN heap
          /\ AchievementsRef(0) \in DOMAIN heap']_vars

\* Two inputs with one Go file each have been merged: the merged entry
\* counts 2 files and is a share that no input has, the inputs' entries
\* still count 1.
C13_Witness ==
    /\ pc = "merged"
    /\ Len(results) = 2
    /\ {EntryRef(0, "Go"), EntryRef(1, "Go"), EntryRef(2, "Go")} \subseteq DOMAIN heap
    /\ heap[EntryRef(0, "Go")].count = 2
    /\ heap[EntryRef(1, "Go")] = [count |-> 1, percentage |-> Whole(100)]
    /\ heap[EntryRef(2, "Go")].count = 1
    /\ heap[EntryRef(2, "Go")].percentage # heap[EntryRef(0, "Go")].percentage

\* One active input has been merged: loyal-developer was pushed to the
\* merged achievements and not to the input's.
C13_WitnessMilestone ==
    /\ pc = "merged"
    /\ Len(results) = 1
    /\ \E k \in 1..Len(heap[AchievementsRef(0)]) :
          heap[AchievementsRef(0)][k].id = "loyal-developer"
    /\ \A k \in 1..Len(heap[AchievementsRef(1)]) :
          heap[AchievementsRef(1)][k].id # "loyal-developer"
    /\ Len(heap[AchievementsRef(0)]) > Len(heap[AchievementsRef(1)])

(***************************************************************************)
(* More properties of parseRawLog.                                         *)
(***************************************************************************)
\* C14: every commit parseRawLog returns has insertions >= 0 and
\* deletions >= 0.
C14_CountsAreNonNegative ==
    pc = "parsed" =>
        \A i \in 1..Len(commits) : commits[i].insertions >= 0 /\ commits[i].deletions >= 0

(***************************************************************************)
(* Ratios and percentages.                                                 *)
(***************************************************************************)
\* Math.round(x) = p for x = count / total * 100: p - 1/2 <= x < p + 1/2.
IsRounded(p, count, total) ==
    /\ p \in Nat
    /\ (2 * p - 1) * total <= 200 * count
    /\ 200 * count < (2 * p + 1) * total

\* What holds of one repository's result r computed from the commits cs.
RepositoryRatios(r, cs) ==
    /\ IsFinite(avgLinesPerCommit(r))
    /\ IsFinite(refactorRatio(r))
    /\ (r.languageStats = <<>>) <=> (\A i \in 1..Len(cs) : cs[i].files = <<>>)
    /\ \A e \in 1..Len(r.languageStats) :
          IsRounded(r.languageStats[e].percentage, r.languageStats[e].count,
                    Len(AllFiles(cs)))

\* C15: no ratio or percentage has a zero divisor or a non-numeric value:
\* the mean lines per commit, the deletion/insertion ratio and the language
\* percentages of every repository's result and of the merged result are
\* finite numbers; a repository's language map is empty exactly when none
\* of its commits has a changed file, and each of its percentages is
\* round(count / total files * 100).
C15_RatiosAreWellDefined ==
    /\ \A i \in 1..Len(results) : \A k \in 1..Len(RepoLogs) :
          results[i].result = RepoResults[k, today]
              => RepositoryRatios(results[i].result, RepoCommits[k])
    /\ pc = "merged" =>
          /\ IsFinite(avgLinesPerCommit(merged))
          /\ IsFinite(refactorRatio(merged))
          /\ \A e \in 1..Len(merged.languageStats) :
                /\ IsFinite(merged.languageStats[e].percentage)
                /\ ~LessThan(merged.languageStats[e].percentage, 0)
                /\ ~GreaterThan(merged.languageStats[e].percentage, 100)

\* A merge of a repository without commits, one whose only commit changes no
\* file and inserts nothing, and one with classified files.
C15_Witness ==
    /\ pc = "merged"
    /\ \E i \in 1..Len(results) : results[i].result.totalCommits = 0
    /\ \E i \in 1..Len(results) :
          /\ results[i].result.totalCommits > 0
          /\ results[i].result.totalInsertions = 0
          /\ results[i].result.languageStats = <<>>
    /\ \E i \in 1..Len(results) : Len(results[i].result.languageStats) > 1
    /\ Len(merged.languageStats) > 1

\* A merge in which every total is zero.
C15_WitnessAllZero ==
    /\ pc = "merged"
    /\ Len(results) > 1
    /\ merged.totalCommits = 0
    /\ merged.languageStats = <<>>

(***************************************************************************)
(* Properties of calculatePersona.                                         *)
(***************************************************************************)
\* The statistics calculatePersona reads.
PersonaStatistics(r) ==
    <<r.totalCommits, r.netLines, r.streakStats.longestStreak,
      IF Len(r.languageStats) > 0 THEN r.languageStats[1].language ELSE "Code",
      r.totalInsertions, r.totalDeletions,
      IF 23 \in DOMAIN r.timeStats.byHour THEN r.timeStats.byHour[23] ELSE 0>>

TwoRunsDone == pc = "runs" /\ Len(results) = 2

\* C16: two calculatePersona calls with equal statistics return the same
\* {title, description} pair, whatever else differs between the two runs.
C16_PersonaIsAFunctionOfStatistics ==
    (TwoRunsDone /\ PersonaStatistics(results[1].result) = PersonaStatistics(results[2].result))
        => results[1].result.persona = results[2].result.persona

\* The titles of two runs with equal statistics are equal.
TitleIsAFunctionOfStatistics ==
    (TwoRunsDone /\ PersonaStatistics(results[1].result) = PersonaStatistics(results[2].result))
        => results[1].result.persona.title = results[2].result.persona.title

\* Two runs in the same year with equal statistics agree on the pair.
SameYearSamePersona ==
    (/\ TwoRunsDone
     /\ PersonaStatistics(results[1].result) = PersonaStatistics(results[2].result)
     /\ results[1].result.persona.description # results[2].result.persona.description)
        => YearOf(today) = 2025

(***************************************************************************)
(* parseRawLog called twice on the same text.                              *)
(***************************************************************************)
CommitFields ==
    {"hash", "date", "message", "author", "email", "files", "insertions",
     "deletions", "language"}

Finalizing ==
    /\ currentCommit # NULL
    /\ \/ InLoop /\ state = "stats" /\ LooksLikeHash(lines[lineIdx + 1])
       \/ pc \in {"parse", "broke"} /\ pc' = "parsed"

\* C18: every record whose five header lines were consumed in the Meta
\* state appears in the output exactly once, appended when the next
\* record-id-shaped line is met in the Stats state or at end of input, and
\* the output keeps the order of the header groups: a step appends the
\* pending record when it finalizes it, and otherwise leaves the output as it
\* is.
C18_EveryConsumedRecordIsOutputOnce ==
    [][IF Finalizing
       THEN /\ Len(commits') = Len(commits) + 1
            /\ SubSeq(commits', 1, Len(commits)) = commits
            /\ commits'[Len(commits')].hash = currentCommit.hash
            /\ commits'[Len(commits')].message = currentCommit.message
       ELSE commits' = commits]_vars

\* The output only grows at its end, by one commit at a time.
OutputOnlyGrows ==
    [][\/ commits' = commits
       \/ /\ Len(commits') = Len(commits) + 1
          /\ SubSeq(commits', 1, Len(commits)) = commits]_vars

\* A pending record whose hash is not empty is appended when it is finalized.
HashedRecordIsOutputOnce ==
    [][(Finalizing /\ Truthy(currentCommit.hash))
          => /\ Len(commits') = Len(commits) + 1
             /\ commits'[Len(commits')].hash = currentCommit.hash]_vars

(***************************************************************************)
(* The stat lines of a record.                                             *)
(***************************************************************************)
\* The value of a numeric field as text: 0 for the placeholder, the number a
\* (signed) decimal numeral writes, and 0 for any other text.
FieldNumber(f) ==
    LET digits == IF f # <<>> /\ Head(f) = "-" THEN Tail(f) ELSE f
    IN  IF digits = <<>> \/ \E k \in 1..Len(digits) : ~IsDigit(digits[k]) THEN 0
        ELSE IF Head(f) = "-" THEN 0 - DigitsValue(digits, 0)
        ELSE DigitsValue(digits, 0)

\* A line of exactly three tab-separated fields.
ThreeFields(line) == Cardinality({k \in 1..Len(line) : line[k] = TAB}) = 2

\* The lines after the header of the j-th record, up to the next
\* record-id-shaped line or the end of the text.
BodyOf(j) ==
    LET from == groups[j] + 6
        ids == {p \in from..Len(lines) : LooksLikeHash(lines[p])}
        to == IF ids = {} THEN Len(lines)
              ELSE (CHOOSE p \in ids : \A q \in ids : p <= q) - 1
    IN  SubSeq(lines, from, to)

StatLinesOf(j) == SelectSeq(BodyOf(j), ThreeFields)

\* C19: for each parsed commit, insertions and deletions are the sums of
\* the first and second fields over exactly the three-field lines between
\* its header and the next record boundary, a "-" counted as 0, and its files
\* are those lines' third fields in order; with no such line the commit has
\* insertions = 0, deletions = 0, no file and language "Unknown".
C19_StatsAreSumsOverStatLines ==
    pc = "parsed" =>
        \A i \in 1..Len(commits) :
            \E j \in 1..Len(groups) :
                /\ lines[groups[j] + 1] = commits[i].hash
                /\ \E stat \in {StatLinesOf(j)} :
                      /\ commits[i].insertions
                            = SumTo([k \in 1..Len(stat) |->
                                        FieldNumber(Split(stat[k], TAB)[1])], Len(stat))
                      /\ commits[i].deletions
                            = SumTo([k \in 1..Len(stat) |->
                                        FieldNumber(Split(stat[k], TAB)[2])], Len(stat))
                      /\ commits[i].files
                            = [k \in 1..Len(stat) |-> Split(stat[k], TAB)[3]]
                      /\ stat = <<>> =>
                            /\ commits[i].insertions = 0
                            /\ commits[i].deletions = 0
                            /\ commits[i].files = <<>>
                            /\ commits[i].language = "Unknown"

\* Two commits: one with two stat lines and a line that is not one between
\* its header and the next record, the other with no stat line.
C19_Witness ==
    /\ pc = "parsed"
    /\ Len(commits) = 2
    /\ \E j \in 1..Len(groups) :
          /\ Len(StatLinesOf(j)) = 2
          /\ Len(SelectSeq(BodyOf(j), LAMBDA l : l # <<>>)) = 3
          /\ commits[j].insertions > 0
    /\ \E i \in 1..2 : commits[i].files = <<>> /\ commits[i].language = "Unknown"

(***************************************************************************)
(* The trend series of a merged result.                                    *)
(***************************************************************************)
\* The count the inputs give the date key in the series `which`.
InputCount(which, key) ==
    SumTo([i \in 1..Len(AllTrends(results, which)) |->
              IF AllTrends(results, which)[i].date = key
              THEN AllTrends(results, which)[i].count ELSE 0],
          Len(AllTrends(results, which)))

\* The series is strictly ascending by date key, holds every key of the
\* inputs, and gives each key the sum of the inputs' counts.
Reaggregated(series, which) ==
    /\ \A k \in 1..(Len(series) - 1) : TextLess(series[k].date, series[k + 1].date)
    /\ \A k \in 1..Len(series) : series[k].count = InputCount(which, series[k].date)
    /\ \A i \in 1..Len(AllTrends(results, which)) :
          \E k \in 1..Len(series) : series[k].date = AllTrends(results, which)[i].date

\* Every input series is ascending with unique keys.
InputSeriesAscending ==
    \A i \in 1..Len(results) : \A which \in {"daily", "monthly"} :
        \A k \in 1..(Len(results[i].result.commitTrends[which]) - 1) :
            TextLess(results[i].result.commitTrends[which][k].date,
                     results[i].result.commitTrends[which][k + 1].date)

\* C20: in a merged result both trend series, daily and monthly, are
\* re-aggregated by date key: strictly ascending, no key twice, and the count
\* of a key is the sum of the inputs' counts for it.
C20_TrendsAreReaggregated ==
    (pc = "merged" /\ InputSeriesAscending) =>
        /\ Reaggregated(merged.commitTrends.daily, "daily")
        /\ Reaggregated(merged.commitTrends.monthly, "monthly")

\* The monthly series is re-aggregated.
MonthlyIsReaggregated ==
    (pc = "merged" /\ InputSeriesAscending) =>
        Reaggregated(merged.commitTrends.monthly, "monthly")

\* The daily series is the concatenation of the inputs' series.
DailyIsConcatenated ==
    pc = "merged" => merged.commitTrends.daily = AllTrends(results, "daily")

\* Two inputs with commits in the same month are merged.
MonthlySharedKeyMerged ==
    /\ pc = "merged"
    /\ InputSeriesAscending
    /\ \E i, j \in 1..Len(results) :
          /\ i < j
          /\ \E a \in 1..Len(results[i].result.commitTrends.monthly) :
             \E b \in 1..Len(results[j].result.commitTrends.monthly) :
                results[i].result.commitTrends.monthly[a].date
                    = results[j].result.commitTrends.monthly[b].date
    /\ Len(merged.commitTrends.monthly) > 1

(***************************************************************************)
(* Keywords and message-pattern achievements of a merged result.           *)
(***************************************************************************)
\* The achievements unlocked by counting commits whose message matches a
\* pattern.
MessagePatternIds == {"bug-terminator", "refactor-artist"}

\* C21: a merged result's keyword list is the first input's topKeywords,
\* and each message-pattern achievement is among the merged achievements
\* exactly when the first input satisfies its threshold.
C21_FirstInputDecidesMessageAchievements ==
    pc = "merged" =>
        /\ merged.topKeywords = results[1].result.topKeywords
        /\ \A id \in MessagePatternIds :
              HasAchievement(merged, id) <=> HasAchievement(results[1].result, id)

\* The merged keyword list is the first input's.
MergedKeywordsAreTheFirstInputs ==
    pc = "merged" => merged.topKeywords = results[1].result.topKeywords

\* No message-pattern achievement is ever among the merged achievements.
NoMessageAchievementInMerge ==
    pc = "merged" => \A id \in MessagePatternIds : ~HasAchievement(merged, id)

\* Inputs with different keyword lists are merged, the first of them with
\* keywords.
KeywordsOfFirstAmongSeveral ==
    /\ pc = "merged"
    /\ Len(results) > 1
    /\ results[1].result.topKeywords # <<>>
    /\ results[2].result.topKeywords # results[1].result.topKeywords

(***************************************************************************)
(* The current streak.                                                     *)
(***************************************************************************)
\* The number of consecutive days of S counted backward from the day now,
\* now included: 0 when now is not in S.
RunBackFrom(S, now) ==
    CHOOSE n \in 0..Cardinality(S) :
        /\ \A k \in 0..(n - 1) : now - k \in S
        /\ now - n \notin S

\* C22: currentStreak is the number of consecutive calendar days, counted
\* backward from today inclusive, that each have a commit; 0 when today has
\* none; whatever other dates, earlier or later than today, are present.
C22_CurrentStreakCountsBackFromToday ==
    (HasStreaks /\ AllDatesValid) =>
        result.streakStats.currentStreak = RunBackFrom(CommitDays, today)

\* The same when no commit is dated later than today.
CurrentStreakWithoutLaterDates ==
    (HasStreaks /\ AllDatesValid /\ \A d \in CommitDays : d <= today) =>
        result.streakStats.currentStreak = RunBackFrom(CommitDays, today)

\* With a commit dated later than today the current streak is 0.
CurrentStreakWithLaterDate ==
    (HasStreaks /\ AllDatesValid /\ \E d \in CommitDays : d > today) =>
        result.streakStats.currentStreak = 0

\* A run of two days ending today with an earlier day after a gap, and no
\* later date.
StreakEndsToday ==
    /\ pc = "done"
    /\ \A d \in CommitDays : d <= today
    /\ {today, today - 1} \subseteq CommitDays
    /\ today - 2 \notin CommitDays
    /\ Cardinality(CommitDays) = 3
    /\ result.streakStats.currentStreak = 2

(***************************************************************************)
(* The streaks of a merged result.                                         *)
(***************************************************************************)
\* n is the greatest of the inputs' figures `field`.
IsMaxOfInputs(n, field) ==
    /\ \A i \in Inputs : results[i].result.streakStats[field] <= n
    /\ \E i \in Inputs : results[i].result.streakStats[field] = n

\* C23: a merged result's longestStreak is the maximum of the inputs'
\* longestStreak and its currentStreak the maximum of the inputs'
\* currentStreak, so longestStreak >= currentStreak >= 0 holds for it
\* whenever it holds for every input.
C23_MergedStreaksAreMaxima ==
    pc = "merged" =>
        /\ IsMaxOfInputs(merged.streakStats.longestStreak, "longestStreak")
        /\ IsMaxOfInputs(merged.streakStats.currentStreak, "currentStreak")
        /\ (\A i \in Inputs :
               /\ results[i].result.streakStats.longestStreak
                     >= results[i].result.streakStats.currentStreak
               /\ results[i].result.streakStats.currentStreak >= 0)
              => /\ merged.streakStats.longestStreak >= merged.streakStats.currentStreak
                 /\ merged.streakStats.currentStreak >= 0

\* Three inputs: the greatest longestStreak and the greatest currentStreak
\* come from inputs other than the last, which has no commit.
C23_Witness ==
    /\ pc = "merged"
    /\ Len(results) = 3
    /\ results[3].result.totalCommits = 0
    /\ results[1].result.streakStats.longestStreak = 1
    /\ results[2].result.streakStats.longestStreak = 2
    /\ results[2].result.streakStats.currentStreak = 1
    /\ results[1].result.streakStats.currentStreak = 0
    /\ merged.streakStats.longestStreak = 2
    /\ merged.streakStats.currentStreak = 1

(***************************************************************************)
(* Properties of detectLanguage.                                           *)
(***************************************************************************)
\* The lower-cased extensions of the classified commit's files, in order.
Extensions == [i \in 1..Len(commits[1].files) |-> FileExt(commits[1].files[i])]

Occurrences(e) == Cardinality({i \in 1..Len(Extensions) : Extensions[i] = e})

FirstOccurrence(e) ==
    CHOOSE i \in 1..Len(Extensions) :
        Extensions[i] = e /\ \A j \in 1..(i - 1) : Extensions[j] # e

\* e occurs most often and, among the extensions that do, first.
IsDominant(e) ==
    /\ \A i \in 1..Len(Extensions) : Occurrences(Extensions[i]) <= Occurrences(e)
    /\ \A i \in 1..Len(Extensions) :
          Occurrences(Extensions[i]) = Occurrences(e)
              => FirstOccurrence(e) <= FirstOccurrence(Extensions[i])

\* C24: detectLanguage returns "Unknown" for an empty file list; otherwise
\* the language mapped from the lower-cased extension that occurs most often
\* ("Other" if unmapped), the extension met first winning among those that
\* share the maximum.
C24_DominantLanguage ==
    pc = "classified" =>
        IF commits[1].files = <<>> THEN commits[1].language = "Unknown"
        ELSE \E i \in 1..Len(Extensions) :
                /\ IsDominant(Extensions[i])
                /\ commits[1].language
                      = IF Extensions[i] \in DOMAIN LanguageTable
                        THEN LanguageTable[Extensions[i]] ELSE "Other"

\* Two extensions share the maximum; the one met first, written in upper
\* case in one path, is not the first file's and decides the language.
C24_Witness ==
    /\ pc = "classified"
    /\ Len(commits[1].files) = 4
    /\ Extensions = <<"", ".go", ".md", ".go">>
    /\ commits[1].files[2] # commits[1].files[4]
    /\ commits[1].language = "Go"

\* A tie between two extensions: the one met first wins.
C24_WitnessTie ==
    /\ pc = "classified"
    /\ Extensions = <<".md", ".go", ".go", ".md">>
    /\ commits[1].language = "Markdown"

\* No file, and files without a mapped extension.
C24_WitnessUnknownAndOther ==
    /\ pc = "classified"
    /\ \/ commits[1].files = <<>> /\ commits[1].language = "Unknown"
       \/ Extensions = <<".png", "">> /\ commits[1].language = "Other"

(***************************************************************************)
(* Properties of analyzeKeywords.                                          *)
(***************************************************************************)
\* Index of the first occurrence of the word w in the sequence ws.
FirstPosition(ws, w) ==
    CHOOSE i \in 1..Len(ws) : ws[i] = w /\ \A j \in 1..(i - 1) : ws[j] # w

\* kw has at most 20 entries, no token of length <= 2, no stop word and
\* non-increasing counts.
WellFormedKeywords(kw) ==
    /\ Len(kw) <= 20
    /\ \A k \in 1..Len(kw) : Len(kw[k].word) > 2 /\ kw[k].word \notin StopWords
    /\ \A k \in 1..(Len(kw) - 1) : kw[k].count >= kw[k + 1].count

\* Among entries of kw with equal counts the word met first in the commit
\* sequence cs comes first.
TiesInOrderOf(kw, cs) ==
    \E seen \in {AllWords(cs)} :
        \A a, b \in 1..Len(kw) :
            (a < b /\ kw[a].count = kw[b].count)
                => FirstPosition(seen, kw[a].word) < FirstPosition(seen, kw[b].word)

\* The commit sequence as the parser produced it.
ParserOutput == parseRawLog(IF lines = <<>> THEN << <<>> >> ELSE lines)

\* C25: topKeywords returned by analyze() has at most 20 entries, no token
\* of length <= 2, no stop word and non-increasing counts, and among words
\* with equal counts the word first seen in the commit sequence as produced by
\* the parser comes first.
C25_KeywordsRankedInParserOrder ==
    pc = "done" =>
        /\ WellFormedKeywords(result.topKeywords)
        /\ TiesInOrderOf(result.topKeywords, ParserOutput)

\* The list is well formed.
KeywordsAreWellFormed == pc = "done" => WellFormedKeywords(result.topKeywords)

\* Ties follow the order of the commits sorted by date, the order
\* analyzeStreaks left the array in.
KeywordTiesFollowDateOrder ==
    pc = "done" => TiesInOrderOf(result.topKeywords, commits)

\* Ties follow the parser's order when the log is already ascending by date.
KeywordTiesInAscendingLog ==
    (pc = "done" /\ commits = ParserOutput)
        => TiesInOrderOf(result.topKeywords, ParserOutput)

\* Several commits whose words tie, in a log that is ascending by date.
AscendingLogWithTies ==
    /\ pc = "done"
    /\ Len(commits) > 1
    /\ commits = ParserOutput
    /\ Len(result.topKeywords) > 3
    /\ result.topKeywords[1].count > result.topKeywords[2].count
    /\ result.topKeywords[2].count = result.topKeywords[3].count

(***************************************************************************)
(* Project-count milestones and persona of a merged result.                *)
(***************************************************************************)
\* The tiers of the two milestone families: the id of each threshold.
TotalTiers ==
    (5 :> "project-nomad-5") @@ (10 :> "project-jumper-10")
    @@ (20 :> "project-explorer-20") @@ (50 :> "project-collector-50")

ActiveTiers == (5 :> "active-projects-5") @@ (10 :> "active-projects-10")

\* The achievements of the merged result whose id belongs to the family.
OfFamily(tiers) ==
    SelectSeq(merged.achievements,
              LAMBDA a : \E t \in DOMAIN tiers : tiers[t] = a.id)

\* With n projects the family contributes exactly the milestone of the
\* highest tier n reaches, and nothing below the lowest tier.
HighestTierOnly(tiers, n) ==
    IF \A t \in DOMAIN tiers : n < t THEN OfFamily(tiers) = <<>>
    ELSE /\ Len(OfFamily(tiers)) = 1
         /\ \E t \in DOMAIN tiers :
               /\ t <= n
               /\ \A u \in DOMAIN tiers : u <= n => u <= t
               /\ OfFamily(tiers)[1].id = tiers[t]

ProjectPersonaTitles == {"project-jumper", "versatile-developer", "project-explorer"}

ActiveInputs == Cardinality({i \in Inputs : results[i].result.totalCommits > 0})

\* C26: a total-project milestone is appended iff the number of input
\* projects is >= 5 (exactly one, for the highest tier reached among
\* 5/10/20/50), an active-project milestone iff the number of active projects
\* is >= 5 (exactly one, for the highest tier among 5/10), and the persona
\* computed from the merged totals is replaced by a project-count persona iff
\* the number of input projects is >= 5.
C26_ProjectCountThresholds ==
    pc = "merged" =>
        /\ HighestTierOnly(TotalTiers, Len(results))
        /\ HighestTierOnly(ActiveTiers, ActiveInputs)
        /\ IF Len(results) >= 5
           THEN merged.persona.title \in ProjectPersonaTitles
           ELSE merged.persona = calculatePersona(merged, YearOf(today))

\* Fifty projects of which ten are active.
C26_Witness ==
    /\ pc = "merged"
    /\ Len(results) = 50
    /\ ActiveInputs = 10
    /\ HasAchievement(merged, "project-collector-50")
    /\ HasAchievement(merged, "active-projects-10")
    /\ merged.persona.title = "project-explorer"

\* Five projects, all active: the lowest tier of both families.
C26_WitnessFive ==
    /\ pc = "merged"
    /\ Len(results) = 5
    /\ ActiveInputs = 5
    /\ HasAchievement(merged, "project-nomad-5")
    /\ HasAchievement(merged, "active-projects-5")
    /\ merged.persona.title = "project-jumper"

\* Four projects: no milestone and the persona of the merged totals.
C26_WitnessFour ==
    /\ pc = "merged"
    /\ Len(results) = 4
    /\ ActiveInputs = 4
    /\ OfFamily(TotalTiers) = <<>>
    /\ OfFamily(ActiveTiers) = <<>>
    /\ merged.persona.title \notin ProjectPersonaTitles

(***************************************************************************)
(* The late-hour persona.                                                  *)
(***************************************************************************)
\* The number of commits counted at hour 23.
CommitsAtHour23(stats) ==
    IF 23 \in DOMAIN stats.timeStats.byHour THEN stats.timeStats.byHour[23] ELSE 0

\* C27: calculatePersona selects the late-hour persona only when more than 50
\* commits were made at hour 23; with 50 or fewer the default narrative
\* branch is taken.
C27_LateHourPersonaNeedsFiftyCommits ==
    (pc = "done" /\ result.persona.title = "night-watch")
        => CommitsAtHour23(result) > 50

\* The two earlier style branches do keep their precedence over the
\* late-hour branch.
LateHourPersonaComesLast ==
    (pc = "done" /\ result.persona.title = "night-watch")
        => /\ result.totalDeletions <= result.totalInsertions
           /\ result.streakStats.longestStreak <= 60

\* Without any commit at hour 23 the late-hour persona is never chosen.
NoLateCommitNoLateHourPersona ==
    (pc = "done" /\ CommitsAtHour23(result) = 0)
        => result.persona.title # "night-watch"

\* A result with one commit at hour 23 that carries the late-hour persona.
LateHourPersonaOfOneCommit ==
    /\ pc = "done"
    /\ CommitsAtHour23(result) = 1
    /\ result.persona.title = "night-watch"

(***************************************************************************)
(* Records whose second header line is not a timestamp.                    *)
(***************************************************************************)
\* C28: analyze() completes without raising for every commit sequence
\* parseRawLog can return, including records whose second header line is not
\* a parseable timestamp.
C28_AnalyzeCompletes == pc # "threw"

\* analyze() raises only in analyzePunchCard, and only when some commit
\* carries an invalid date: card[NaN] is undefined and card[NaN][NaN]++ is a
\* TypeError.
OnlyInvalidDatesRaise ==
    pc = "threw" => \E i \in 1..Len(commits) : ~commits[i].date.valid

\* A log of parseable timestamps is analysed to the end.
ValidDatesAreAnalyzed ==
    (pc \in {"built", "done"}) => \A i \in 1..Len(commits) : commits[i].date.valid

\* analyze() has raised on a log with one record whose date does not parse.
AnalyzeRaisedOnInvalidDate ==
    /\ pc = "threw"
    /\ Len(commits) = 1
    /\ ~commits[1].date.valid

(***************************************************************************)
(* Header fields are read by position.                                     *)
(***************************************************************************)
\* Commit i carries the five header lines of group j.
CarriesHeader(i, j) ==
    /\ commits[i].hash = lines[groups[j] + 1]
    /\ commits[i].date = NewDate(lines[groups[j] + 2])
    /\ commits[i].message = lines[groups[j] + 3]
    /\ commits[i].author = lines[groups[j] + 4]
    /\ commits[i].email = lines[groups[j] + 5]

\* The 1-based line numbers of header lines 2 to 5.
HeaderTail == UNION {(groups[j] + 2)..(groups[j] + 5) : j \in 1..Len(groups)}

\* Some header of the text has a blank or record-id-shaped subject, author
\* name or email.
HasOddHeader ==
    \E j \in 1..Len(groups), f \in 3..5 :
        TrimIsEmpty(lines[groups[j] + f]) \/ LooksLikeHash(lines[groups[j] + f])

EveryHeaderYieldsItsCommit ==
    /\ pc = "parsed" =>
          \A j \in 1..Len(groups) :
              Cardinality({i \in 1..Len(commits) : CarriesHeader(i, j)}) = 1
    /\ (InLoop /\ state = "stats") => (lineIdx + 1) \notin HeaderTail

\* C29: in the Meta state the five header fields are taken by position from
\* the next five lines: a header whose subject, author name or email is blank
\* or a 40-character tab-free string still yields exactly one commit whose
\* hash, timestamp, subject, author and email are the group's lines 1 to 5,
\* and the record-boundary test is never applied to header lines 2 to 5.
C29_HeaderFieldsArePositional == HasOddHeader => EveryHeaderYieldsItsCommit

\* A Meta step that does not break reads the five lines at the line index,
\* whatever they hold, and goes on in the Stats state after them.
MetaReadsFiveLines ==
    [][(InLoop /\ state = "meta" /\ lineIdx + 4 < Len(lines))
          => /\ currentCommit' = ReadMeta(lines, lineIdx)
             /\ state' = "stats"
             /\ lineIdx' >= lineIdx + 5
             /\ commits' = commits]_vars

\* In a text that starts with a header line every header yields its commit.
HeadersOfAlignedTextAreRead ==
    (lines # <<>> /\ ~TrimIsEmpty(lines[1])) => EveryHeaderYieldsItsCommit

\* A text with unusual headers that starts with a header line was parsed: two
\* commits, one with a blank subject and one with a record-id-shaped email.
AlignedOddHeadersParsed ==
    /\ pc = "parsed"
    /\ ~TrimIsEmpty(lines[1])
    /\ Len(commits) = 2
    /\ \E i \in 1..2 : TrimIsEmpty(commits[i].message)
    /\ \E i \in 1..2 : LooksLikeHash(commits[i].email)

\* After a leading blank line a header with a record-id-shaped email was
\* read one line off: its email met the record-boundary test.
ShiftedHeaderMetBoundaryTest ==
    /\ InLoop /\ state = "stats"
    /\ TrimIsEmpty(lines[1])
    /\ (lineIdx + 1) \in HeaderTail
    /\ LooksLikeHash(lines[lineIdx + 1])

(***************************************************************************)
(* Termination of parseRawLog.                                             *)
(***************************************************************************)
\* What one loop iteration does to the line index: Meta breaks or moves past
\* five lines and the blank lines after them, Stats moves one line, and a
\* boundary line met in Stats is handled as Meta in the same iteration.
IterationAdvances ==
    IF state = "meta" \/ LooksLikeHash(CurrentLine)
    THEN \/ pc' = "broke" /\ lineIdx' = lineIdx /\ lineIdx + 4 >= Len(lines)
         \/ pc' = "parse" /\ state' = "stats"
              /\ lineIdx' = SkipBlank(lines, lineIdx + 5)
              /\ lineIdx' >= lineIdx + 5
    ELSE pc' = "parse" /\ state' = "stats" /\ lineIdx' = lineIdx + 1

\* Between call and return the parser always has a next step: an iteration
\* when a line is left, for either state of the loop, and the return
\* otherwise.
ParserHasNextStep ==
    pc \in {"parse", "broke"} =>
        \/ InLoop /\ state \in {"meta", "stats"}
        \/ pc = "broke" \/ lineIdx >= Len(lines)

\* C30: parseRawLog terminates on every finite input: every loop iteration
\* breaks or strictly advances the line index, which never passes the number
\* of lines, so the loop runs at most once per line and the call returns.
C30_ParseRawLogTerminates ==
    /\ [][InLoop => (IterationAdvances /\ lineIdx' <= Len(lines))]_vars
    /\ (pc = "parse") ~> (pc = "parsed")

\* The loop has run to the end of a text of two records, the second found at a
\* boundary line in the Stats state, and the call has returned.
C30_Witness ==
    /\ pc = "parsed"
    /\ lineIdx = Len(lines)
    /\ Len(commits) = 2
    /\ Len(lines) > 10

\* The call has returned after the loop broke at a trailing partial header.
C30_WitnessBreak ==
    /\ pc = "parsed"
    /\ lineIdx < Len(lines)
    /\ Len(commits) >= 1
====
